---- MODULE Spec2Model ----
(***************************************************************************)
(* A model of the react-compiler-rust middle end: lowering of a function   *)
(* AST to a CFG (hir/lowering.rs), dominators (hir/dominators.rs), SSA     *)
(* construction (hir/ssa.rs), liveness (hir/inference.rs), reactive scope  *)
(* construction (hir/reactive_scopes.rs), tree reconstruction              *)
(* (hir/reactive_function.rs) and the naming rules of code emission        *)
(* (codegen.rs).  Each stage is an operator computed the way the code      *)
(* computes it; the pipeline of lib.rs::compile is the state machine.      *)
(*                                                                         *)
(* Conventions.  Option<T> is a sequence of length 0 (None) or 1 (Some).   *)
(* A name (Rust String) is a sequence of one-character strings, so that    *)
(* format!("t{}", id) and the starts_with('t')/all-digits tests are        *)
(* computed, not assumed.  Place wraps exactly one Identifier, so a Place  *)
(* is modelled by its Identifier.                                          *)
(***************************************************************************)
EXTENDS Integers, Sequences, FiniteSets, TLC

(***************************************************************************)
(* Generic helpers                                                         *)
(***************************************************************************)
None == <<>>

Some(x) == <<x>>

Last(s) == s[Len(s)]

Front(s) == SubSeq(s, 1, Len(s) - 1)

Range(s) == { s[i] : i \in 1..Len(s) }

\* Map insertion (HashMap::insert): the new value replaces an existing one.
MapPut(m, k, v) == (k :> v) @@ m

EmptyMap == <<>>

\* TLC suspends the arguments of an operator until they are used; a fold that
\* passes its accumulator on unevaluated builds a chain of suspended steps as
\* deep as its input.  Force(v, e) evaluates v, then e.
Force(v, e) == IF v = v THEN e ELSE e

\* Bind([x \in {e} |-> body]) is body with x naming the value of e; e is
\* evaluated once, before body.
Bind(f) == f[CHOOSE x \in DOMAIN f : TRUE]

\* Pick({ body : x \in {e} }) is the same binding written over a one-element
\* set; it evaluates e once also where an action is evaluated for ENABLED,
\* which the fairness condition of the dominator computation needs.
Pick(S) == CHOOSE y \in S : TRUE

Max2(a, b) == IF a >= b THEN a ELSE b

Min2(a, b) == IF a <= b THEN a ELSE b

DigitChars == <<"0", "1", "2", "3", "4", "5", "6", "7", "8", "9">>

RECURSIVE Digits(_)
\* Decimal rendering of a usize, as format!("{}", n) produces it.
Digits(n) ==
    IF n < 10 THEN <<DigitChars[n + 1]>>
    ELSE Digits(n \div 10) \o <<DigitChars[(n % 10) + 1]>>

IsAsciiDigit(c) == \E i \in 1..Len(DigitChars) : DigitChars[i] = c

(***************************************************************************)
(* hir.rs: identifiers, instructions, terminals, blocks                    *)
(***************************************************************************)
Identifier(name, id) == [name |-> name, id |-> id]

\* InstructionValue: one record shape for every variant.
\*   args     the Places of the variant, in declaration order
\*   blocks   (Phi only) the predecessor of each operand
IValue(kind, op, num, args, property, blocks) ==
    [kind |-> kind, op |-> op, num |-> num, args |-> args,
     property |-> property, blocks |-> blocks]

Constant(ctype, num) == IValue("Constant", ctype, num, <<>>, <<>>, <<>>)

BinaryOp(op, left, right) == IValue("BinaryOp", op, 0, <<left, right>>, <<>>, <<>>)

UnaryOp(op, operand) == IValue("UnaryOp", op, 0, <<operand>>, <<>>, <<>>)

Call(callee, args) == IValue("Call", "", 0, <<callee>> \o args, <<>>, <<>>)

PropertyLoad(object, property) == IValue("PropertyLoad", "", 0, <<object>>, property, <<>>)

PropertyStore(object, property, value) ==
    IValue("PropertyStore", "", 0, <<object, value>>, property, <<>>)

ComputedLoad(object, property) == IValue("ComputedLoad", "", 0, <<object, property>>, <<>>, <<>>)

ComputedStore(object, property, value) ==
    IValue("ComputedStore", "", 0, <<object, property, value>>, <<>>, <<>>)

LoadLocal(place) == IValue("LoadLocal", "", 0, <<place>>, <<>>, <<>>)

StoreLocal(target, value) == IValue("StoreLocal", "", 0, <<target, value>>, <<>>, <<>>)

Phi(operands, preds) == IValue("Phi", "", 0, operands, <<>>, preds)

\* Instruction.scope is None everywhere in the repository: no stage assigns it.
Instruction(id, lvalue, value) == [id |-> id, lvalue |-> lvalue, value |-> value, scope |-> None]

\* Terminal: one record shape for every variant.
\*   value    If/Switch: the test; Return: the optional value
\*   targets  Goto: <<target>>; If: <<consequent, alternate>>; Switch: the case targets
\*   labels   Switch: the test Place of each case
Terminal(kind, value, targets, labels, default, merge_target) ==
    [kind |-> kind, value |-> value, targets |-> targets, labels |-> labels,
     default |-> default, merge_target |-> merge_target]

Goto(target) == Terminal("Goto", None, <<target>>, <<>>, None, None)

If(test, consequent, alternate) ==
    Terminal("If", Some(test), <<consequent, alternate>>, <<>>, None, None)

Return(value) == Terminal("Return", value, <<>>, <<>>, None, None)

Switch(test, labels, targets, default, merge_target) ==
    Terminal("Switch", Some(test), targets, labels, Some(default), merge_target)

BasicBlock(id, instructions, terminal, preds) ==
    [id |-> id, instructions |-> instructions, terminal |-> terminal, preds |-> preds]

\* BasicBlock::successors
successors(block) ==
    IF block.terminal.kind = "Switch"
    THEN block.terminal.targets \o block.terminal.default
    ELSE block.terminal.targets

(***************************************************************************)
(* The function AST handed to lowering (the oxc AST, reduced to the node   *)
(* kinds lowering.rs distinguishes).  One record shape for every node:     *)
(*   k  node kind      s  name / operator / property     n  number / flag  *)
(*   a, b, c, d  child lists (see the constructors)                        *)
(***************************************************************************)
Node(k, s, n, a, b, c, d) == [k |-> k, s |-> s, n |-> n, a |-> a, b |-> b, c |-> c, d |-> d]

\* Expressions
Num(n) == Node("NumericLiteral", <<>>, n, <<>>, <<>>, <<>>, <<>>)

Null == Node("NullLiteral", <<>>, 0, <<>>, <<>>, <<>>, <<>>)

Id(name) == Node("Identifier", name, 0, <<>>, <<>>, <<>>, <<>>)

Bin(op, l, r) == Node("BinaryExpression", <<op>>, 0, <<l>>, <<r>>, <<>>, <<>>)

Logical(op, l, r) == Node("LogicalExpression", <<op>>, 0, <<l>>, <<r>>, <<>>, <<>>)

Cond(t, l, r) == Node("ConditionalExpression", <<>>, 0, <<t>>, <<l>>, <<r>>, <<>>)

\* n = 1: prefix (++x); n = 0: postfix (x++)
Update(op, prefix, target) == Node("UpdateExpression", <<op>>, prefix, <<target>>, <<>>, <<>>, <<>>)

Assign(op, target, right) == Node("AssignmentExpression", <<op>>, 0, <<target>>, <<right>>, <<>>, <<>>)

Member(object, property) == Node("StaticMemberExpression", property, 0, <<object>>, <<>>, <<>>, <<>>)

\* Any expression kind lower_expression has no arm for (this, a template, ...)
OtherExpr == Node("ThisExpression", <<>>, 0, <<>>, <<>>, <<>>, <<>>)

\* Patterns: a = the bound names, as Identifier nodes (shorthand properties)
ObjectPattern(props) == Node("ObjectPattern", <<>>, 0, props, <<>>, <<>>, <<>>)

\* Statements
ReturnStmt(arg) == Node("ReturnStatement", <<>>, 0, arg, <<>>, <<>>, <<>>)

\* a = <<binding>>, b = optional init
Declarator(binding, init) == Node("VariableDeclarator", <<>>, 0, <<binding>>, init, <<>>, <<>>)

VarDecl(declarators) == Node("VariableDeclaration", <<>>, 0, declarators, <<>>, <<>>, <<>>)

Let(name, init) == VarDecl(<<Declarator(Id(name), Some(init))>>)

ExprStmt(e) == Node("ExpressionStatement", <<>>, 0, <<e>>, <<>>, <<>>, <<>>)

\* a = <<test>>, b = <<consequent>>, c = optional alternate
IfStmt(test, consequent, alternate) ==
    Node("IfStatement", <<>>, 0, <<test>>, <<consequent>>, alternate, <<>>)

WhileStmt(test, body) == Node("WhileStatement", <<>>, 0, <<test>>, <<body>>, <<>>, <<>>)

\* d = optional init, a = optional test, c = optional update, b = <<body>>
ForStmt(init, test, update, body) == Node("ForStatement", <<>>, 0, test, <<body>>, update, init)

Block(stmts) == Node("BlockStatement", <<>>, 0, <<>>, stmts, <<>>, <<>>)

BreakStmt == Node("BreakStatement", <<>>, 0, <<>>, <<>>, <<>>, <<>>)

ContinueStmt == Node("ContinueStatement", <<>>, 0, <<>>, <<>>, <<>>, <<>>)

\* a = optional test (None: default), b = consequent statements
Case(test, consequent) == Node("SwitchCase", <<>>, 0, test, consequent, <<>>, <<>>)

SwitchStmt(discriminant, cases) ==
    Node("SwitchStatement", <<>>, 0, <<discriminant>>, cases, <<>>, <<>>)

\* A function: name, parameter patterns (Identifier or ObjectPattern nodes), body
Function(name, params, body) == [name |-> name, params |-> params, body |-> body]

(***************************************************************************)
(* hir/lowering.rs: LoweringContext                                        *)
(***************************************************************************)
\* A value returned together with the context it leaves behind (&mut self).
R(ctx, val) == [ctx |-> ctx, val |-> val]

EmptyBlock(id) == BasicBlock(id, <<>>, Return(None), <<>>)

LoopInfo(break_target, continue_target) ==
    [break_target |-> break_target, continue_target |-> continue_target]

\* LoweringContext::new.  panicked records that a panic!() was reached: the
\* build then unwinds and yields no HIRFunction.
LoweringContext_new ==
    [blocks |-> (0 :> EmptyBlock(0)),
     current_block_id |-> 0,
     next_block_id |-> 1,
     next_instr_id |-> 0,
     next_temp_id |-> 0,
     loop_stack |-> <<>>,
     terminated_blocks |-> {},
     loop_headers |-> {},
     panicked |-> FALSE]

panic(ctx) == [ctx EXCEPT !.panicked = TRUE]

next_block_id(ctx) == R([ctx EXCEPT !.next_block_id = @ + 1], ctx.next_block_id)

create_temp(ctx) ==
    R([ctx EXCEPT !.next_temp_id = @ + 1],
      Identifier(<<"t">> \o Digits(ctx.next_temp_id), ctx.next_temp_id))

push_instruction(ctx, value) ==
    Bind([temp \in {create_temp(ctx)} |->
        R([temp.ctx EXCEPT !.next_instr_id = @ + 1,
                           !.blocks[ctx.current_block_id].instructions =
                               Append(@, Instruction(temp.ctx.next_instr_id, temp.val, value))],
          temp.val)])

start_block(ctx, id) ==
    [ctx EXCEPT !.blocks = IF id \in DOMAIN @ THEN @ ELSE @ @@ (id :> EmptyBlock(id)),
                !.current_block_id = id]

is_block_terminated(ctx, id) == id \in ctx.terminated_blocks

terminate_block(ctx, terminal) ==
    Bind([fresh \in {next_block_id(
                        [ctx EXCEPT !.terminated_blocks = @ \cup {ctx.current_block_id},
                                    !.blocks[ctx.current_block_id].terminal = terminal])} |->
        start_block(fresh.ctx, fresh.val)])

start_loop(ctx, header_id, break_target, continue_target) ==
    [ctx EXCEPT !.loop_stack = Append(@, LoopInfo(break_target, continue_target)),
                !.loop_headers = @ \cup {header_id}]

end_loop(ctx) == [ctx EXCEPT !.loop_stack = IF @ = <<>> THEN @ ELSE Front(@)]

\* lower_binary_expression: the operator table; every other operator maps to Add.
BinaryOperatorOf(op) ==
    CASE op = "+" -> "Add"
      [] op = "-" -> "Sub"
      [] op = "*" -> "Mul"
      [] op = "/" -> "Div"
      [] op = "%" -> "Mod"
      [] op = "<" -> "LessThan"
      [] op = "<=" -> "LessThanEqual"
      [] op = ">" -> "GreaterThan"
      [] op = ">=" -> "GreaterThanEqual"
      [] op = "==" -> "Equal"
      [] op = "!=" -> "NotEqual"
      [] op = "===" -> "StrictEqual"
      [] op = "!==" -> "StrictNotEqual"
      [] op = "&" -> "BitwiseAnd"
      [] op = "|" -> "BitwiseOr"
      [] op = "^" -> "BitwiseXor"
      [] op = "<<" -> "LeftShift"
      [] op = ">>" -> "RightShift"
      [] op = ">>>" -> "UnsignedRightShift"
      [] op = "instanceof" -> "InstanceOf"
      [] op = "in" -> "In"
      [] OTHER -> "Add"

\* lower_assignment_expression: the compound operators with an arm; any other
\* operator (**=, &&=, ||=, ??=) reaches panic!("Unsupported assignment operator").
CompoundOperators == {"+=", "-=", "*=", "/=", "%=", "|=", "^=", "&=", "<<=", ">>=", ">>>="}

CompoundOperatorOf(op) ==
    CASE op = "+=" -> "Add"
      [] op = "-=" -> "Sub"
      [] op = "*=" -> "Mul"
      [] op = "/=" -> "Div"
      [] op = "%=" -> "Mod"
      [] op = "|=" -> "BitwiseOr"
      [] op = "^=" -> "BitwiseXor"
      [] op = "&=" -> "BitwiseAnd"
      [] op = "<<=" -> "LeftShift"
      [] op = ">>=" -> "RightShift"
      [] op = ">>>=" -> "UnsignedRightShift"

RECURSIVE lower_expression(_, _)
RECURSIVE lower_statement(_, _)
RECURSIVE lower_statements(_, _)

lower_binary_expression(ctx, bin) ==
    Bind([left \in {lower_expression(ctx, bin.a[1])} |->
    Bind([right \in {lower_expression(left.ctx, bin.b[1])} |->
        push_instruction(right.ctx,
                         BinaryOp(BinaryOperatorOf(bin.s[1]), left.val, right.val))])])

lower_update_expression(ctx, update) ==
    IF update.a[1].k # "Identifier" THEN create_temp(ctx)
    ELSE
    Bind([arg_place \in {Identifier(update.a[1].s, 0)} |->
    Bind([current \in {push_instruction(ctx, LoadLocal(arg_place))} |->
    Bind([one \in {push_instruction(current.ctx, Constant("Float", 1))} |->
    Bind([new_value \in {push_instruction(one.ctx,
                             BinaryOp(IF update.s[1] = "++" THEN "Add" ELSE "Sub",
                                      current.val, one.val))} |->
        R(push_instruction(new_value.ctx, StoreLocal(arg_place, new_value.val)).ctx,
          IF update.n = 1 THEN new_value.val ELSE current.val)])])])])

RECURSIVE lower_object_assignment_target(_, _, _)
\* lower_assignment_expression, ObjectAssignmentTarget arm: one PropertyLoad and
\* one StoreLocal per shorthand property.
lower_object_assignment_target(ctx, props, value) ==
    IF props = <<>> THEN ctx
    ELSE
    Bind([prop_value \in {push_instruction(ctx, PropertyLoad(value, props[1].s))} |->
    Bind([stored \in {push_instruction(prop_value.ctx,
                          StoreLocal(Identifier(props[1].s, 0), prop_value.val))} |->
        lower_object_assignment_target(stored.ctx, Tail(props), value)])])

\* lower_assignment_expression, `let value = ...`: the right side, or for a
\* compound operator the BinaryOp of the target's current value and the right
\* side; panic!() for a target that is not an identifier and for an operator
\* without an arm.
lower_assignment_value(right_value, assign) ==
    IF assign.s[1] = "=" THEN right_value
    ELSE IF assign.a[1].k # "Identifier" THEN R(panic(right_value.ctx), right_value.val)
    ELSE
    Bind([left_value \in {push_instruction(right_value.ctx,
                              LoadLocal(Identifier(assign.a[1].s, 0)))} |->
        IF assign.s[1] \notin CompoundOperators
        THEN R(panic(left_value.ctx), right_value.val)
        ELSE push_instruction(left_value.ctx,
                              BinaryOp(CompoundOperatorOf(assign.s[1]),
                                       left_value.val, right_value.val))])

lower_assignment_expression(ctx, assign) ==
    Bind([value \in {lower_assignment_value(lower_expression(ctx, assign.b[1]), assign)} |->
        IF value.ctx.panicked THEN value
        ELSE CASE assign.a[1].k = "Identifier" ->
                    R(push_instruction(value.ctx,
                                       StoreLocal(Identifier(assign.a[1].s, 0), value.val)).ctx,
                      value.val)
               [] assign.a[1].k = "StaticMemberExpression" ->
                    Bind([object \in {lower_expression(value.ctx, assign.a[1].a[1])} |->
                        R(push_instruction(object.ctx,
                                           PropertyStore(object.val, assign.a[1].s,
                                                         value.val)).ctx,
                          value.val)])
               [] assign.a[1].k = "ObjectPattern" ->
                    R(lower_object_assignment_target(value.ctx, assign.a[1].a, value.val),
                      value.val)
               [] OTHER -> value])

\* lower_expression, LogicalExpression arm: the terminal that ends the block of
\* the left operand.
lower_logical_branch(ctx, operator, left, right_block_id, short_circuit_block_id) ==
    CASE operator = "&&" ->
            terminate_block(ctx, If(left, right_block_id, short_circuit_block_id))
      [] operator = "||" ->
            terminate_block(ctx, If(left, short_circuit_block_id, right_block_id))
      [] OTHER ->
            Bind([is_nullish \in {push_instruction(ctx, UnaryOp("IsNullish", left))} |->
                terminate_block(is_nullish.ctx,
                                If(is_nullish.val, right_block_id, short_circuit_block_id))])

\* lower_expression, LogicalExpression and ConditionalExpression arms: one
\* branch of the diamond.  The block is started, `value` (already lowered for
\* the short-circuit branch, else the expression to lower) is stored to
\* result_place and the block ends in Goto(merge).
lower_branch_store(ctx, block_id, value, result_place, merge_block_id) ==
    Bind([stored \in {push_instruction(value.ctx, StoreLocal(result_place, value.val))} |->
        terminate_block(stored.ctx, Goto(merge_block_id))])

lower_logical_expression(ctx, logical) ==
    Bind([left \in {lower_expression(ctx, logical.a[1])} |->
    Bind([right_block_id \in {next_block_id(left.ctx)} |->
    Bind([short_circuit_block_id \in {next_block_id(right_block_id.ctx)} |->
    Bind([merge_block_id \in {next_block_id(short_circuit_block_id.ctx)} |->
    Bind([result_place \in {create_temp(merge_block_id.ctx)} |->
    Bind([branched \in {lower_logical_branch(result_place.ctx, logical.s[1], left.val,
                                             right_block_id.val,
                                             short_circuit_block_id.val)} |->
    Bind([sc_done \in {lower_branch_store(branched, short_circuit_block_id.val,
                           R(start_block(branched, short_circuit_block_id.val), left.val),
                           result_place.val, merge_block_id.val)} |->
    Bind([r_done \in {lower_branch_store(sc_done, right_block_id.val,
                          lower_expression(start_block(sc_done, right_block_id.val),
                                           logical.b[1]),
                          result_place.val, merge_block_id.val)} |->
        push_instruction(start_block(r_done, merge_block_id.val),
                         LoadLocal(result_place.val))])])])])])])])])

lower_conditional_expression(ctx, cond) ==
    Bind([test \in {lower_expression(ctx, cond.a[1])} |->
    Bind([then_block_id \in {next_block_id(test.ctx)} |->
    Bind([else_block_id \in {next_block_id(then_block_id.ctx)} |->
    Bind([merge_block_id \in {next_block_id(else_block_id.ctx)} |->
    Bind([result_place \in {create_temp(merge_block_id.ctx)} |->
    Bind([branched \in {terminate_block(result_place.ctx,
                            If(test.val, then_block_id.val, else_block_id.val))} |->
    Bind([t_done \in {lower_branch_store(branched, then_block_id.val,
                          lower_expression(start_block(branched, then_block_id.val),
                                           cond.b[1]),
                          result_place.val, merge_block_id.val)} |->
    Bind([e_done \in {lower_branch_store(t_done, else_block_id.val,
                          lower_expression(start_block(t_done, else_block_id.val),
                                           cond.c[1]),
                          result_place.val, merge_block_id.val)} |->
        push_instruction(start_block(e_done, merge_block_id.val),
                         LoadLocal(result_place.val))])])])])])])])])

lower_expression(ctx, expr) ==
    IF ctx.panicked THEN R(ctx, Identifier(<<>>, 0))
    ELSE
    CASE expr.k = "BinaryExpression" -> lower_binary_expression(ctx, expr)
      [] expr.k = "UpdateExpression" -> lower_update_expression(ctx, expr)
      [] expr.k = "AssignmentExpression" -> lower_assignment_expression(ctx, expr)
      [] expr.k = "NumericLiteral" -> push_instruction(ctx, Constant("Float", expr.n))
      [] expr.k = "NullLiteral" -> push_instruction(ctx, Constant("Null", 0))
      [] expr.k = "Identifier" -> push_instruction(ctx, LoadLocal(Identifier(expr.s, 0)))
      [] expr.k = "StaticMemberExpression" ->
            Bind([object \in {lower_expression(ctx, expr.a[1])} |->
                push_instruction(object.ctx, PropertyLoad(object.val, expr.s))])
      [] expr.k = "LogicalExpression" -> lower_logical_expression(ctx, expr)
      [] expr.k = "ConditionalExpression" -> lower_conditional_expression(ctx, expr)
      [] OTHER -> create_temp(ctx)

\* lower_variable_declaration, one declarator: without init, or with a
\* binding that is not a plain identifier, nothing is stored.
lower_declarator(ctx, declarator) ==
    IF declarator.b = <<>> THEN ctx
    ELSE
    Bind([value_place \in {lower_expression(ctx, declarator.b[1])} |->
        IF declarator.a[1].k = "Identifier"
        THEN push_instruction(value_place.ctx,
                              StoreLocal(Identifier(declarator.a[1].s, 0),
                                         value_place.val)).ctx
        ELSE value_place.ctx])

RECURSIVE lower_declarators(_, _)
lower_declarators(ctx, declarators) ==
    IF declarators = <<>> THEN ctx
    ELSE Bind([after \in {lower_declarator(ctx, declarators[1])} |->
             lower_declarators(after, Tail(declarators))])

lower_variable_declaration(ctx, decl) == lower_declarators(ctx, decl.a)

\* lower_for_statement_init: a declaration, or one of the expression kinds listed.
lower_for_statement_init(ctx, init) ==
    IF init.k = "VariableDeclaration" THEN lower_variable_declaration(ctx, init)
    ELSE IF init.k \in {"AssignmentExpression", "UpdateExpression", "BinaryExpression"}
    THEN lower_expression(ctx, init).ctx
    ELSE ctx

\* The guard of lower_statement's IfStatement arm: is the branch's FIRST block
\* terminated (not the block lowering is currently in).
if_branch_terminated(ctx, branch_block_id) == is_block_terminated(ctx, branch_block_id)

\* lower_statement, IfStatement arm: one branch.  body = the context after
\* the branch's statement.
lower_if_branch(body, branch_block_id, merge_block_id) ==
    IF ~if_branch_terminated(body, branch_block_id)
    THEN terminate_block(body, Goto(merge_block_id))
    ELSE body

\* lower_statement, IfStatement arm, up to the branches: the test, the three
\* block ids and the If terminal.
lower_if_entry(ctx, if_stmt) ==
    Bind([test \in {lower_expression(ctx, if_stmt.a[1])} |->
    Bind([then_block_id \in {next_block_id(test.ctx)} |->
    Bind([else_block_id \in {next_block_id(then_block_id.ctx)} |->
    Bind([merge_block_id \in {next_block_id(else_block_id.ctx)} |->
        [ctx |-> terminate_block(merge_block_id.ctx,
                                 If(test.val, then_block_id.val, else_block_id.val)),
         then_block_id |-> then_block_id.val,
         else_block_id |-> else_block_id.val,
         merge_block_id |-> merge_block_id.val]])])])])

\* The context after the statement of the then-branch.
lower_if_consequent(entry, if_stmt) ==
    lower_statement(start_block(entry.ctx, entry.then_block_id), if_stmt.b[1])

\* The context after the statement of the else-branch, if there is one.
lower_if_alternate(then_done, entry, if_stmt) ==
    Bind([else_start \in {start_block(then_done, entry.else_block_id)} |->
        IF if_stmt.c # <<>> THEN lower_statement(else_start, if_stmt.c[1])
        ELSE else_start])

lower_if_statement(ctx, if_stmt) ==
    Bind([entry \in {lower_if_entry(ctx, if_stmt)} |->
    Bind([then_done \in {lower_if_branch(lower_if_consequent(entry, if_stmt),
                                         entry.then_block_id, entry.merge_block_id)} |->
    Bind([else_done \in {lower_if_branch(lower_if_alternate(then_done, entry, if_stmt),
                                         entry.else_block_id, entry.merge_block_id)} |->
        start_block(else_done, entry.merge_block_id)])])])

\* lower_statement, WhileStatement / ForStatement arms: after the body, the
\* block lowering is in jumps to `target` unless it is terminated.
lower_loop_back(body, target) ==
    IF ~is_block_terminated(body, body.current_block_id)
    THEN terminate_block(body, Goto(target))
    ELSE body

lower_while_statement(ctx, while_stmt) ==
    Bind([header_block_id \in {next_block_id(ctx)} |->
    Bind([body_block_id \in {next_block_id(header_block_id.ctx)} |->
    Bind([exit_block_id \in {next_block_id(body_block_id.ctx)} |->
    Bind([entered \in {terminate_block(exit_block_id.ctx, Goto(header_block_id.val))} |->
    Bind([test \in {lower_expression(start_block(entered, header_block_id.val),
                                     while_stmt.a[1])} |->
    Bind([tested \in {terminate_block(test.ctx,
                          If(test.val, body_block_id.val, exit_block_id.val))} |->
    Bind([looped \in {start_loop(start_block(tested, body_block_id.val),
                                 header_block_id.val, exit_block_id.val,
                                 Some(header_block_id.val))} |->
    Bind([body \in {end_loop(lower_statement(looped, while_stmt.b[1]))} |->
        start_block(lower_loop_back(body, header_block_id.val),
                    exit_block_id.val)])])])])])])])])

lower_for_statement(ctx, for_stmt) ==
    Bind([inited \in {IF for_stmt.d # <<>> THEN lower_for_statement_init(ctx, for_stmt.d[1])
                      ELSE ctx} |->
    Bind([header_block_id \in {next_block_id(inited)} |->
    Bind([body_block_id \in {next_block_id(header_block_id.ctx)} |->
    Bind([update_block_id \in {next_block_id(body_block_id.ctx)} |->
    Bind([exit_block_id \in {next_block_id(update_block_id.ctx)} |->
    Bind([header \in {start_block(terminate_block(exit_block_id.ctx,
                                                  Goto(header_block_id.val)),
                                  header_block_id.val)} |->
    Bind([test \in {IF for_stmt.a # <<>> THEN lower_expression(header, for_stmt.a[1])
                    ELSE push_instruction(header, Constant("Boolean", 1))} |->
    Bind([tested \in {terminate_block(test.ctx,
                          If(test.val, body_block_id.val, exit_block_id.val))} |->
    Bind([looped \in {start_loop(start_block(tested, body_block_id.val),
                                 header_block_id.val, exit_block_id.val,
                                 Some(update_block_id.val))} |->
    Bind([body \in {end_loop(lower_statement(looped, for_stmt.b[1]))} |->
    Bind([update_start \in {start_block(lower_loop_back(body, update_block_id.val),
                                        update_block_id.val)} |->
    Bind([updated \in {IF for_stmt.c # <<>>
                       THEN lower_expression(update_start, for_stmt.c[1]).ctx
                       ELSE update_start} |->
        start_block(terminate_block(updated, Goto(header_block_id.val)),
                    exit_block_id.val)])])])])])])])])])])])])

RECURSIVE continue_target(_)
\* ContinueStatement: the innermost loop record that has a continue_target.
continue_target(loop_stack) ==
    IF loop_stack = <<>> THEN None
    ELSE IF Last(loop_stack).continue_target # None THEN Last(loop_stack).continue_target
    ELSE continue_target(Front(loop_stack))

RECURSIVE default_block(_, _, _, _)
\* lower_switch_statement: the block of the (last) case without a test, else exit.
default_block(cases, first_block, i, fallback) ==
    IF i > Len(cases) THEN fallback
    ELSE default_block(cases, first_block, i + 1,
                       IF cases[i].a = <<>> THEN first_block + (i - 1) ELSE fallback)

RECURSIVE lower_case_tests(_, _, _, _, _)
\* lower_switch_statement: the tests are all lowered in the block of the switch.
\* val = [labels, targets]
lower_case_tests(ctx, cases, first_block, i, acc) ==
    IF i > Len(cases) THEN R(ctx, acc)
    ELSE IF cases[i].a = <<>> THEN lower_case_tests(ctx, cases, first_block, i + 1, acc)
    ELSE
    Bind([test_place \in {lower_expression(ctx, cases[i].a[1])} |->
    Bind([pushed \in {[labels |-> Append(acc.labels, test_place.val),
                       targets |-> Append(acc.targets, first_block + (i - 1))]} |->
        lower_case_tests(test_place.ctx, cases, first_block, i + 1, pushed)])])

\* lower_switch_statement, the body of one iteration of the case loop up to the
\* fall-through test: start the block of case i and lower its statements.
lower_case_body(ctx, cases, first_block, i) ==
    lower_statements(start_block(ctx, first_block + (i - 1)), cases[i].b)

\* The target of the Goto that ends case i: the next case block, else exit.
next_target(cases, first_block, i, exit_block) ==
    IF i + 1 <= Len(cases) THEN first_block + i ELSE exit_block

RECURSIVE lower_case_bodies_to_exit(_, _, _, _, _)
\* The case loop with every open case body linked to the exit block.
lower_case_bodies_to_exit(ctx, cases, first_block, i, exit_block) ==
    IF i > Len(cases) THEN ctx
    ELSE
    Bind([body \in {lower_case_body(ctx, cases, first_block, i)} |->
    Bind([linked \in {lower_loop_back(body, exit_block)} |->
        lower_case_bodies_to_exit(linked, cases, first_block, i + 1, exit_block)])])

RECURSIVE lower_case_bodies(_, _, _, _, _)
lower_case_bodies(ctx, cases, first_block, i, exit_block) ==
    IF i > Len(cases) THEN ctx
    ELSE
    Bind([body \in {lower_case_body(ctx, cases, first_block, i)} |->
    Bind([linked \in {lower_loop_back(body, next_target(cases, first_block, i, exit_block))} |->
        lower_case_bodies(linked, cases, first_block, i + 1, exit_block)])])

\* lower_switch_statement up to the Switch terminal.  Returns the context
\* after terminate_block with the ids allocated: switch_block (the block the
\* terminal closes), exit_block and first_block (case i has first_block + i - 1).
lower_switch_entry(ctx, switch_stmt) ==
    Bind([discriminant \in {lower_expression(ctx, switch_stmt.a[1])} |->
    Bind([exit_block \in {next_block_id(discriminant.ctx)} |->
    Bind([pushed \in {[exit_block.ctx EXCEPT
                         !.loop_stack = Append(@, LoopInfo(exit_block.val, None))]} |->
    Bind([first_block \in {pushed.next_block_id} |->
    Bind([switch_cases \in {lower_case_tests(
                               [pushed EXCEPT !.next_block_id = @ + Len(switch_stmt.b)],
                               switch_stmt.b, first_block, 1,
                               [labels |-> <<>>, targets |-> <<>>])} |->
        [ctx |-> terminate_block(switch_cases.ctx,
                     Switch(discriminant.val, switch_cases.val.labels,
                            switch_cases.val.targets,
                            default_block(switch_stmt.b, first_block, 1, exit_block.val),
                            Some(exit_block.val))),
         switch_block |-> switch_cases.ctx.current_block_id,
         exit_block |-> exit_block.val,
         first_block |-> first_block]])])])])])

lower_switch_statement(ctx, switch_stmt) ==
    Bind([entry \in {lower_switch_entry(ctx, switch_stmt)} |->
    Bind([bodies \in {lower_case_bodies(entry.ctx, switch_stmt.b, entry.first_block, 1,
                                        entry.exit_block)} |->
        start_block(end_loop(bodies), entry.exit_block)])])

lower_statement(ctx, stmt) ==
    IF ctx.panicked THEN ctx
    ELSE
    CASE stmt.k = "ReturnStatement" ->
            IF stmt.a # <<>>
            THEN Bind([value \in {lower_expression(ctx, stmt.a[1])} |->
                     terminate_block(value.ctx, Return(Some(value.val)))])
            ELSE terminate_block(ctx, Return(None))
      [] stmt.k = "VariableDeclaration" -> lower_variable_declaration(ctx, stmt)
      [] stmt.k = "ExpressionStatement" -> lower_expression(ctx, stmt.a[1]).ctx
      [] stmt.k = "IfStatement" -> lower_if_statement(ctx, stmt)
      [] stmt.k = "WhileStatement" -> lower_while_statement(ctx, stmt)
      [] stmt.k = "ForStatement" -> lower_for_statement(ctx, stmt)
      [] stmt.k = "BlockStatement" -> lower_statements(ctx, stmt.b)
      [] stmt.k = "BreakStatement" ->
            IF ctx.loop_stack # <<>>
            THEN terminate_block(ctx, Goto(Last(ctx.loop_stack).break_target))
            ELSE ctx
      [] stmt.k = "ContinueStatement" ->
            Bind([target \in {continue_target(ctx.loop_stack)} |->
                IF target # None THEN terminate_block(ctx, Goto(target[1])) ELSE ctx])
      [] stmt.k = "SwitchStatement" -> lower_switch_statement(ctx, stmt)
      [] OTHER -> ctx

lower_statements(ctx, stmts) ==
    IF stmts = <<>> THEN ctx
    ELSE Bind([after \in {lower_statement(ctx, stmts[1])} |->
             lower_statements(after, Tail(stmts))])

RECURSIVE lower_params(_, _)
\* LoweringContext::build, the parameter loop: a destructuring pattern becomes
\* the synthetic parameter _param<idx> (with id = idx) and nothing else.
lower_params(params, idx) ==
    IF idx >= Len(params) THEN <<>>
    ELSE <<IF params[idx + 1].k = "Identifier"
           THEN Identifier(params[idx + 1].s, 0)
           ELSE Identifier(<<"_", "p", "a", "r", "a", "m">> \o Digits(idx), idx)>>
         \o lower_params(params, idx + 1)

HIRFunction(name, params, entry_block, blocks, loop_headers) ==
    [name |-> name, params |-> params, entry_block |-> entry_block,
     blocks |-> blocks, loop_headers |-> loop_headers]

\* LoweringContext::build.  val = the HIRFunction; ctx.panicked = the build aborted.
build(func) ==
    Bind([ctx \in {lower_statements(LoweringContext_new, func.body)} |->
        R(ctx, HIRFunction(func.name, lower_params(func.params, 0), 0,
                           ctx.blocks, ctx.loop_headers))])

(***************************************************************************)
(* Orderings the code relies on (BTreeMap/BTreeSet iteration, sort)        *)
(***************************************************************************)
\* The characters names are made of, in byte order.
Alphabet ==
    <<"$", "0", "1", "2", "3", "4", "5", "6", "7", "8", "9", "_",
      "a", "b", "c", "d", "e", "f", "g", "h", "i", "j", "k", "l", "m",
      "n", "o", "p", "q", "r", "s", "t", "u", "v", "w", "x", "y", "z">>

CharCode(c) == CHOOSE i \in 1..Len(Alphabet) : Alphabet[i] = c

RECURSIVE NameLess(_, _)
\* String's Ord: lexicographic by byte.
NameLess(a, b) ==
    IF b = <<>> THEN FALSE
    ELSE IF a = <<>> THEN TRUE
    ELSE IF a[1] # b[1] THEN CharCode(a[1]) < CharCode(b[1])
    ELSE NameLess(Tail(a), Tail(b))

RECURSIVE SortedBlocks(_)
\* The elements of a set of block ids (or indices) in ascending order.
SortedBlocks(S) ==
    IF S = {} THEN <<>>
    ELSE LET m == CHOOSE x \in S : \A y \in S : x <= y
         IN  <<m>> \o SortedBlocks(S \ {m})

RECURSIVE SortedNames(_)
\* The elements of a set of names in String order.
SortedNames(S) ==
    IF S = {} THEN <<>>
    ELSE LET m == CHOOSE x \in S : \A y \in S : x = y \/ NameLess(x, y)
         IN  <<m>> \o SortedNames(S \ {m})

RECURSIVE Reverse(_)
Reverse(s) == IF s = <<>> THEN <<>> ELSE Append(Reverse(Tail(s)), s[1])

(***************************************************************************)
(* hir/dominators.rs                                                       *)
(***************************************************************************)
RECURSIVE post_order(_, _, _)
RECURSIVE post_order_successors(_, _, _)
\* post_order (the same function in dominators.rs, inference.rs and
\* reactive_scopes.rs).  st = [visited, po]
post_order(current, blocks, st) ==
    IF current \in st.visited THEN st
    ELSE
    Pick({ [below EXCEPT !.po = Append(@, current)] :
           below \in {IF current \in DOMAIN blocks
                      THEN post_order_successors(successors(blocks[current]), blocks,
                                                 [st EXCEPT !.visited = @ \cup {current}])
                      ELSE [st EXCEPT !.visited = @ \cup {current}]} })

post_order_successors(succs, blocks, st) ==
    IF succs = <<>> THEN st
    ELSE Pick({ post_order_successors(Tail(succs), blocks, next) :
                next \in {post_order(succs[1], blocks, st)} })

\* Reverse post order of the blocks reachable from entry.
reverse_post_order(entry, blocks) ==
    Reverse(post_order(entry, blocks, [visited |-> {}, po |-> <<>>]).po)

\* rpo_indices: block -> position in rpo (0-based)
rpo_indices_of(rpo) == [b \in Range(rpo) |-> (CHOOSE i \in 1..Len(rpo) : rpo[i] = b) - 1]

\* intersect without the climb: the first block is returned as it is.
intersect_first(idoms, rpo_indices, b1, b2) == b1

RECURSIVE intersect(_, _, _, _)
\* intersect: the block with the larger RPO index climbs first.
intersect(idoms, rpo_indices, b1, b2) ==
    IF rpo_indices[b1] = rpo_indices[b2] THEN b1
    ELSE IF rpo_indices[b1] > rpo_indices[b2]
    THEN intersect(idoms, rpo_indices, idoms[b1], b2)
    ELSE intersect(idoms, rpo_indices, b1, idoms[b2])

RECURSIVE new_idom_of(_, _, _, _)
\* The fold over current_preds: the intersection of the processed predecessors.
new_idom_of(preds, idoms, rpo_indices, new_idom) ==
    IF preds = <<>> THEN new_idom
    ELSE
    Pick({ new_idom_of(Tail(preds), idoms, rpo_indices, next) :
           next \in {IF preds[1] \in DOMAIN idoms
                     THEN IF new_idom # None
                          THEN Some(intersect(idoms, rpo_indices, new_idom[1], preds[1]))
                          ELSE Some(preds[1])
                     ELSE new_idom} })

\* A pass that reports a change whatever it found.
idom_pass_restless(rpo, entry, blocks, rpo_indices, st) == [st EXCEPT !.changed = TRUE]

RECURSIVE idom_pass(_, _, _, _, _)
\* One execution of `for &b in &rpo`.  st = [idoms, changed]
idom_pass(rpo, entry, blocks, rpo_indices, st) ==
    IF rpo = <<>> THEN st
    ELSE
    Pick({ idom_pass(Tail(rpo), entry, blocks, rpo_indices,
                     IF rpo[1] = entry \/ new_idom = None THEN st
                     ELSE IF rpo[1] \in DOMAIN st.idoms /\ st.idoms[rpo[1]] = new_idom[1] THEN st
                     ELSE [idoms |-> MapPut(st.idoms, rpo[1], new_idom[1]), changed |-> TRUE]) :
           new_idom \in {new_idom_of(blocks[rpo[1]].preds, st.idoms, rpo_indices, None)} })

RECURSIVE idom_fixpoint(_, _, _, _, _)
\* `while changed { ... }`
idom_fixpoint(rpo, entry, blocks, rpo_indices, idoms) ==
    LET pass == idom_pass(rpo, entry, blocks, rpo_indices, [idoms |-> idoms, changed |-> FALSE])
    IN  IF pass.changed THEN idom_fixpoint(rpo, entry, blocks, rpo_indices, pass.idoms)
        ELSE pass.idoms

\* The runner loop left after its first step: b is added to the frontier of
\* the predecessor only.
frontier_runner_once(df, runner, b, b_idom, idoms) ==
    IF runner = b_idom THEN df ELSE [df EXCEPT ![runner] = @ \cup {b}]

RECURSIVE frontier_runner(_, _, _, _, _)
\* `while runner != b_idom { DF(runner) += b; runner = idom(runner) }`
frontier_runner(df, runner, b, b_idom, idoms) ==
    IF runner = b_idom THEN df
    ELSE
    LET added == [df EXCEPT ![runner] = @ \cup {b}]
    IN  IF runner \notin DOMAIN idoms \/ idoms[runner] = runner THEN added
        ELSE frontier_runner(added, idoms[runner], b, b_idom, idoms)

RECURSIVE frontier_preds(_, _, _, _)
frontier_preds(df, preds, b, idoms) ==
    IF preds = <<>> THEN df
    ELSE
    LET p == preds[1]
        next == IF p \notin DOMAIN idoms \/ b \notin DOMAIN idoms THEN df
                ELSE frontier_runner(df, p, b, idoms[b], idoms)
    IN  Force(next, frontier_preds(next, Tail(preds), b, idoms))

RECURSIVE frontier_blocks(_, _, _, _)
frontier_blocks(df, ids, blocks, idoms) ==
    IF ids = <<>> THEN df
    ELSE
    LET b == ids[1]
        next == IF Len(blocks[b].preds) >= 2
                THEN frontier_preds(df, blocks[b].preds, b, idoms)
                ELSE df
    IN  Force(next, frontier_blocks(next, Tail(ids), blocks, idoms))

\* DominatorTree::compute
DominatorTree_compute(func) ==
    LET entry == func.entry_block
        blocks == func.blocks
        rpo == reverse_post_order(entry, blocks)
        rpo_indices == rpo_indices_of(rpo)
        idoms == idom_fixpoint(rpo, entry, blocks, rpo_indices, (entry :> entry))
        frontiers == frontier_blocks([b \in DOMAIN blocks |-> {}],
                                     SortedBlocks(DOMAIN blocks), blocks, idoms)
    IN  [idoms |-> idoms, dominance_frontiers |-> frontiers]

(***************************************************************************)
(* hir/ssa.rs                                                              *)
(***************************************************************************)
RECURSIVE SeqSum(_)
SeqSum(s) == IF s = <<>> THEN <<>> ELSE s[1] \o SeqSum(Tail(s))

\* The (pred, succ) edges in BTreeMap order of pred, successor order within.
cfg_edges(blocks) ==
    Pick({ SeqSum([i \in 1..Len(ids) |->
                      [k \in 1..Len(successors(blocks[ids[i]])) |->
                          <<ids[i], successors(blocks[ids[i]])[k]>>]]) :
           ids \in {SortedBlocks(DOMAIN blocks)} })

\* The predecessors of b with every block listed once.
preds_of_once(edges, b) ==
    SortedBlocks({ edges[i][1] : i \in { j \in 1..Len(edges) : edges[j][2] = b } })

RECURSIVE preds_of(_, _)
preds_of(edges, b) ==
    IF edges = <<>> THEN <<>>
    ELSE (IF edges[1][2] = b THEN <<edges[1][1]>> ELSE <<>>) \o preds_of(Tail(edges), b)

\* Step 0 of enter_ssa: every preds list is cleared and rebuilt from the terminals.
compute_predecessors(blocks) ==
    Pick({ [b \in DOMAIN blocks |-> [blocks[b] EXCEPT !.preds = preds_of(edges, b)]] :
           edges \in {cfg_edges(blocks)} })

\* Step 2: the names that are the target of some StoreLocal.
blocks_defining_global(blocks) ==
    LET targets(b) == { blocks[b].instructions[i].value.args[1].name :
                          i \in { j \in 1..Len(blocks[b].instructions) :
                                    blocks[b].instructions[j].value.kind = "StoreLocal" } }
        globals == UNION { targets(b) : b \in DOMAIN blocks }
    IN  [g \in globals |-> { b \in DOMAIN blocks : g \in targets(b) }]

max_instr_id(blocks) ==
    LET ids == UNION { { blocks[b].instructions[i].id : i \in 1..Len(blocks[b].instructions) } :
                       b \in DOMAIN blocks }
    IN  IF ids = {} THEN 0 ELSE CHOOSE m \in ids : \A x \in ids : x <= m

RECURSIVE phi_frontier_flat(_, _, _, _)
\* `for &d in df` without `worklist.push(d)`: the frontier is not iterated.
phi_frontier_flat(ds, var, frontiers, st) ==
    IF ds = <<>> THEN st
    ELSE phi_frontier_flat(Tail(ds), var, frontiers,
             IF ds[1] \in st.has_phi THEN st
             ELSE [st EXCEPT !.has_phi = @ \cup {ds[1]},
                             !.placements[ds[1]] = Append(@, <<var, st.next_instr_id>>),
                             !.next_instr_id = @ + 1])

RECURSIVE phi_frontier(_, _, _, _)
RECURSIVE phi_worklist(_, _, _)
\* `for &d in df` for one popped block.  st = [worklist, has_phi, placements, next_instr_id]
\* placements: block -> sequence of <<var, instr id>>
phi_frontier(ds, var, frontiers, st) ==
    IF ds = <<>> THEN st
    ELSE
    LET d == ds[1]
        next == IF d \in st.has_phi THEN st
                ELSE [worklist |-> Append(st.worklist, d),
                      has_phi |-> st.has_phi \cup {d},
                      placements |-> [st.placements EXCEPT ![d] = Append(@, <<var, st.next_instr_id>>)],
                      next_instr_id |-> st.next_instr_id + 1]
    IN  Force(next, phi_frontier(Tail(ds), var, frontiers, next))

\* `while let Some(b) = worklist.pop()`
phi_worklist(var, frontiers, st) ==
    IF st.worklist = <<>> THEN st
    ELSE
    LET b == Last(st.worklist)
        popped == [st EXCEPT !.worklist = Front(@)]
    IN  phi_worklist(var, frontiers,
                     IF b \in DOMAIN frontiers
                     THEN phi_frontier(SortedBlocks(frontiers[b]), var, frontiers, popped)
                     ELSE popped)

RECURSIVE phi_placements(_, _, _, _)
\* `for var in &globals`.  st = [placements, next_instr_id]
phi_placements(vars, defining, frontiers, st) ==
    IF vars = <<>> THEN st
    ELSE
    LET var == vars[1]
        done == phi_worklist(var, frontiers,
                             [worklist |-> SortedBlocks(defining[var]), has_phi |-> {},
                              placements |-> st.placements, next_instr_id |-> st.next_instr_id])
    IN  phi_placements(Tail(vars), defining, frontiers,
                       [placements |-> done.placements, next_instr_id |-> done.next_instr_id])

\* `block.instructions.insert(0, phi_instr)` for each placement in order.
insert_phis(block, phis) ==
    LET phi_instr(p) == Instruction(p[2], Identifier(p[1], 0), Phi(<<>>, <<>>))
    IN  [block EXCEPT !.instructions =
            [i \in 1..Len(phis) |-> phi_instr(phis[Len(phis) + 1 - i])] \o @]

\* RenameContext::new_version.  ctx = [stacks, counters]
new_version(ctx, name) ==
    LET v == IF name \in DOMAIN ctx.counters THEN ctx.counters[name] ELSE 0
    IN  R([stacks |-> [ctx.stacks EXCEPT ![name] = Append(@, v)],
           counters |-> MapPut(ctx.counters, name, v + 1)],
          v)

\* current_version reading the bottom of the stack: the version the variable
\* had at the entry of the function.
current_version_initial(ctx, name) ==
    IF name \in DOMAIN ctx.stacks /\ ctx.stacks[name] # <<>> THEN ctx.stacks[name][1] ELSE 0

\* RenameContext::current_version
current_version(ctx, name) ==
    IF name \in DOMAIN ctx.stacks /\ ctx.stacks[name] # <<>> THEN Last(ctx.stacks[name]) ELSE 0

\* RenameContext::pop_version left out: a version pushed in a block stays on
\* the stack when the walk leaves the block.
pop_version_skipped(ctx, name) == ctx

\* RenameContext::pop_version
pop_version(ctx, name) ==
    IF name \in DOMAIN ctx.stacks
    THEN [ctx EXCEPT !.stacks[name] = IF @ = <<>> THEN @ ELSE Front(@)]
    ELSE ctx

\* One iteration of the instruction loop of rename_block.
\* st = [ctx, instrs, pushed_vars]
rename_instruction(st, instr) ==
    IF instr.value.kind = "Phi" THEN
        LET nv == new_version(st.ctx, instr.lvalue.name)
        IN  [ctx |-> nv.ctx,
             instrs |-> Append(st.instrs, [instr EXCEPT !.lvalue.id = nv.val]),
             pushed_vars |-> Append(st.pushed_vars, instr.lvalue.name)]
    ELSE IF instr.value.kind = "LoadLocal" THEN
        LET place == instr.value.args[1]
            v == current_version(st.ctx, place.name)
        IN  [st EXCEPT !.instrs = Append(@, [instr EXCEPT !.value = LoadLocal(Identifier(place.name, v))])]
    ELSE IF instr.value.kind = "StoreLocal" THEN
        LET name == instr.value.args[1].name
            nv == new_version(st.ctx, name)
        IN  [ctx |-> nv.ctx,
             instrs |-> Append(st.instrs,
                               [instr EXCEPT !.lvalue = Identifier(name, nv.val),
                                             !.value = LoadLocal(instr.value.args[2])]),
             pushed_vars |-> Append(st.pushed_vars, name)]
    ELSE [st EXCEPT !.instrs = Append(@, instr)]

RECURSIVE rename_instructions(_, _)
rename_instructions(st, instrs) ==
    IF instrs = <<>> THEN st
    ELSE LET next == rename_instruction(st, instrs[1])
         IN  Force(next, rename_instructions(next, Tail(instrs)))

RECURSIVE push_phi_operands_first_name(_, _, _, _)
\* The loop over the leading Phis with `name` taken once, from the first Phi
\* of the successor, instead of from each Phi.
push_phi_operands_first_name(instrs, i, block_id, ctx) ==
    IF i > Len(instrs) \/ instrs[i].value.kind # "Phi" THEN instrs
    ELSE
    LET name == instrs[1].lvalue.name
        pushed == IF name \in DOMAIN ctx.stacks
                  THEN [instrs EXCEPT ![i].value =
                           Phi(Append(@.args, Identifier(name, current_version(ctx, name))),
                               Append(@.blocks, block_id))]
                  ELSE instrs
    IN  Force(pushed, push_phi_operands_first_name(pushed, i + 1, block_id, ctx))

RECURSIVE push_phi_operands(_, _, _, _)
\* The loop over the leading Phis of one successor: append (pred, current version).
push_phi_operands(instrs, i, block_id, ctx) ==
    IF i > Len(instrs) \/ instrs[i].value.kind # "Phi" THEN instrs
    ELSE
    LET name == instrs[i].lvalue.name
        pushed == IF name \in DOMAIN ctx.stacks
                  THEN [instrs EXCEPT ![i].value =
                           Phi(Append(@.args, Identifier(name, current_version(ctx, name))),
                               Append(@.blocks, block_id))]
                  ELSE instrs
    IN  Force(pushed, push_phi_operands(pushed, i + 1, block_id, ctx))

RECURSIVE update_successor_phis(_, _, _, _)
update_successor_phis(blocks, succs, block_id, ctx) ==
    IF succs = <<>> THEN blocks
    ELSE
    LET s == succs[1]
        next == IF s \in DOMAIN blocks
                THEN [blocks EXCEPT ![s].instructions = push_phi_operands(@, 1, block_id, ctx)]
                ELSE blocks
    IN  Force(next, update_successor_phis(next, Tail(succs), block_id, ctx))

RECURSIVE pop_versions(_, _)
pop_versions(ctx, vars) ==
    IF vars = <<>> THEN ctx
    ELSE LET next == pop_version(ctx, vars[1])
         IN  Force(next, pop_versions(next, Tail(vars)))

RECURSIVE rename_block(_, _, _)
RECURSIVE rename_children(_, _, _)
\* rename_block.  st = [blocks, ctx]
rename_block(block_id, st, idoms) ==
    LET block == st.blocks[block_id]
        local == rename_instructions([ctx |-> st.ctx, instrs |-> <<>>, pushed_vars |-> <<>>],
                                     block.instructions)
        rewritten == [st.blocks EXCEPT ![block_id].instructions = local.instrs]
        linked == update_successor_phis(rewritten, successors(block), block_id, local.ctx)
        children == SortedBlocks({ c \in DOMAIN idoms : idoms[c] = block_id /\ c # block_id })
        below == rename_children(children, [blocks |-> linked, ctx |-> local.ctx], idoms)
    IN  [blocks |-> below.blocks, ctx |-> pop_versions(below.ctx, local.pushed_vars)]

rename_children(children, st, idoms) ==
    IF children = <<>> THEN st
    ELSE LET next == rename_block(children[1], st, idoms)
         IN  Force(next, rename_children(Tail(children), next, idoms))

\* enter_ssa
enter_ssa(func) ==
    LET with_preds == [func EXCEPT !.blocks = compute_predecessors(@)]
        dom_tree == DominatorTree_compute(with_preds)
        defining == blocks_defining_global(with_preds.blocks)
        globals == SortedNames(DOMAIN defining)
        placed == phi_placements(globals, defining, dom_tree.dominance_frontiers,
                                 [placements |-> [b \in DOMAIN with_preds.blocks |-> <<>>],
                                  next_instr_id |-> max_instr_id(with_preds.blocks) + 1])
        with_phis == [b \in DOMAIN with_preds.blocks |->
                         insert_phis(with_preds.blocks[b], placed.placements[b])]
        rename_ctx == [stacks |-> [g \in DOMAIN defining |-> <<0>>],
                       counters |-> [g \in DOMAIN defining |-> 1]]
        renamed == rename_block(func.entry_block, [blocks |-> with_phis, ctx |-> rename_ctx],
                                dom_tree.idoms)
    IN  [with_preds EXCEPT !.blocks = renamed.blocks]

(***************************************************************************)
(* hir/inference.rs                                                        *)
(***************************************************************************)
RECURSIVE DisjointSet_find(_, _)
\* DisjointSet::find, with its path compression.  Returns R(parents, root).
DisjointSet_find(parents, id) ==
    IF id \notin DOMAIN parents THEN R(MapPut(parents, id, id), id)
    ELSE IF parents[id] = id THEN R(parents, id)
    ELSE LET up == DisjointSet_find(parents, parents[id])
         IN  R(MapPut(up.ctx, id, up.val), up.val)

\* DisjointSet::union: the root of a is attached below the root of b.
DisjointSet_union(parents, a, b) ==
    LET root_a == DisjointSet_find(parents, a)
        root_b == DisjointSet_find(root_a.ctx, b)
    IN  IF root_a.val # root_b.val THEN MapPut(root_b.ctx, root_a.val, root_b.val)
        ELSE root_b.ctx

\* The instructions of the reachable blocks in reverse post order: the
\* schedule both infer_liveness and linearize_instructions number from 0.
linearize_instructions(func) ==
    LET rpo == reverse_post_order(func.entry_block, func.blocks)
    IN  SeqSum([i \in 1..Len(rpo) |->
                   IF rpo[i] \in DOMAIN func.blocks THEN func.blocks[rpo[i]].instructions
                   ELSE <<>>])

RECURSIVE union_all(_, _, _)
union_all(parents, lvalue, srcs) ==
    IF srcs = <<>> THEN parents
    ELSE LET next == DisjointSet_union(parents, lvalue, srcs[1])
         IN  Force(next, union_all(next, lvalue, Tail(srcs)))

RECURSIVE liveness_definitions(_, _, _)
\* First loop of infer_liveness.  st = [instr_indices, ranges, parents]
liveness_definitions(instrs, current_index, st) ==
    IF instrs = <<>> THEN st
    ELSE
    LET instr == instrs[1]
        aliased == IF instr.value.kind \in {"LoadLocal", "Phi"}
                   THEN union_all(st.parents, instr.lvalue, instr.value.args)
                   ELSE st.parents
        next == [instr_indices |-> MapPut(st.instr_indices, instr.id, current_index),
                 ranges |-> MapPut(st.ranges, instr.lvalue, <<current_index, current_index + 1>>),
                 parents |-> aliased]
    IN  Force(next, liveness_definitions(Tail(instrs), current_index + 1, next))

\* The Places mark_use is applied to, per variant (Constant: none).
used_places(value) ==
    IF value.kind = "StoreLocal" THEN <<value.args[2]>>
    ELSE IF value.kind = "Constant" THEN <<>>
    ELSE value.args

RECURSIVE mark_uses(_, _, _)
mark_uses(ranges, places, idx) ==
    IF places = <<>> THEN ranges
    ELSE LET next == IF places[1] \in DOMAIN ranges
                     THEN [ranges EXCEPT ![places[1]][2] = IF @ >= idx + 1 THEN @ ELSE idx + 1]
                     ELSE ranges
         IN  Force(next, mark_uses(next, Tail(places), idx))

RECURSIVE liveness_uses(_, _, _)
\* Second loop of infer_liveness.
liveness_uses(instrs, instr_indices, ranges) ==
    IF instrs = <<>> THEN ranges
    ELSE LET marked == mark_uses(ranges, used_places(instrs[1].value),
                                 instr_indices[instrs[1].id])
         IN  Force(marked, liveness_uses(Tail(instrs), instr_indices, marked))

\* Ord on (String, usize) pairs, the key order of BTreeSet<(String, usize)>.
IdentifierLess(a, b) ==
    IF a.name # b.name THEN NameLess(a.name, b.name) ELSE a.id < b.id

RECURSIVE SortedIdentifiers(_)
SortedIdentifiers(S) ==
    IF S = {} THEN <<>>
    ELSE LET m == CHOOSE x \in S : \A y \in S : x = y \/ IdentifierLess(x, y)
         IN  <<m>> \o SortedIdentifiers(S \ {m})

\* The iteration orders of the hash-based collections.  A HashMap / HashSet
\* is iterated in an order fixed by its hasher's seed, unrelated to the keys:
\* seed selects a rotation of the sorted keys, read forwards or backwards.
MaxSeed == 3

HashSeeds == 0..MaxSeed

iteration_order(sorted, seed) ==
    IF sorted = <<>> THEN <<>>
    ELSE LET n == Len(sorted)
             k == (seed \div 2) % n
             rotated == [i \in 1..n |-> sorted[((i - 1 + k) % n) + 1]]
         IN  IF seed % 2 = 1 THEN Reverse(rotated) ELSE rotated

\* The entry left as or_insert created it: the first range seen for the root.
merge_entry_first(entry, range) == entry

\* The update of an entry of merged_ranges:
\*   entry.0 = entry.0.min(range.0); entry.1 = entry.1.max(range.1)
merge_entry(entry, range) == <<Min2(entry[1], range[1]), Max2(entry[2], range[2])>>

RECURSIVE merge_ranges(_, _, _, _)
\* `for (id, range) in &ranges`, in the iteration order of the map: the entry
\* of the root of id is created with or_insert(*range) and updated.
\* Returns [parents, merged].
merge_ranges(order, ranges, parents, merged) ==
    IF order = <<>> THEN [parents |-> parents, merged |-> merged]
    ELSE
    Bind([found \in {DisjointSet_find(parents, order[1])} |->
    Bind([entry \in {IF found.val \in DOMAIN merged THEN merged[found.val]
                     ELSE ranges[order[1]]} |->
        merge_ranges(Tail(order), ranges, found.ctx,
                     MapPut(merged, found.val, merge_entry(entry, ranges[order[1]])))])])

RECURSIVE final_ranges(_, _, _, _)
\* `for id in ranges.keys()`: every identifier gets the range of its root.
\* Returns [parents, ranges].
final_ranges(order, parents, merged, final) ==
    IF order = <<>> THEN [parents |-> parents, ranges |-> final]
    ELSE
    Bind([found \in {DisjointSet_find(parents, order[1])} |->
        final_ranges(Tail(order), found.ctx, merged,
                     IF found.val \in DOMAIN merged
                     THEN MapPut(final, order[1], merged[found.val])
                     ELSE final)])

\* infer_liveness.  seed fixes the iteration order of the ranges map.
infer_liveness(func, seed) ==
    Bind([instrs \in {linearize_instructions(func)} |->
    Bind([defs \in {liveness_definitions(instrs, 0,
                        [instr_indices |-> EmptyMap, ranges |-> EmptyMap,
                         parents |-> EmptyMap])} |->
    Bind([ranges \in {liveness_uses(instrs, defs.instr_indices, defs.ranges)} |->
    Bind([order \in {iteration_order(SortedIdentifiers(DOMAIN ranges), seed)} |->
    Bind([merged \in {merge_ranges(order, ranges, defs.parents, EmptyMap)} |->
    Bind([final \in {final_ranges(order, merged.parents, merged.merged, EmptyMap)} |->
        [ranges |-> final.ranges, aliases |-> final.parents]])])])])])])

(***************************************************************************)
(* hir/scope.rs, hir/reactive_scopes.rs                                    *)
(***************************************************************************)
ReactiveScope(id, range, dependencies, declarations) ==
    [id |-> id, range |-> range, dependencies |-> dependencies,
     declarations |-> declarations]

\* The temporary test of infer_scopes:
\*   name.starts_with('t') && name[1..].chars().all(|c| c.is_ascii_digit())
is_temp_name(name) ==
    /\ name # <<>>
    /\ name[1] = "t"
    /\ \A i \in 2..Len(name) : IsAsciiDigit(name[i])

\* The sort key of infer_scopes: (range.0, id.name, id.id).
range_key_less(x, y, ranges) ==
    \/ ranges[x][1] < ranges[y][1]
    \/ ranges[x][1] = ranges[y][1] /\ IdentifierLess(x, y)

RECURSIVE insert_by_key(_, _, _)
\* Position of one entry in a list already sorted by the key, after its equals.
insert_by_key(sorted, id, ranges) ==
    IF sorted = <<>> THEN <<id>>
    ELSE IF range_key_less(id, sorted[1], ranges) THEN <<id>> \o sorted
    ELSE <<sorted[1]>> \o insert_by_key(Tail(sorted), id, ranges)

RECURSIVE sorted_ranges(_, _)
\* sorted_ranges.sort_by_key(..): a stable sort of the collected entries.
sorted_ranges(entries, ranges) ==
    IF entries = <<>> THEN <<>>
    ELSE insert_by_key(sorted_ranges(Front(entries), ranges), Last(entries), ranges)

\* infer_scopes: one scope per user variable whose range is longer than one.
\* The entries are collected in the iteration order of liveness.ranges.
infer_scopes(func, liveness, seed) ==
    LET entries == iteration_order(SortedIdentifiers(DOMAIN liveness.ranges), seed)
        kept == SelectSeq(entries,
                          LAMBDA id : /\ ~(liveness.ranges[id][2] - liveness.ranges[id][1] <= 1)
                                      /\ ~is_temp_name(id.name))
        order == sorted_ranges(kept, liveness.ranges)
    IN  [i \in 1..Len(order) |-> ReactiveScope(i - 1, liveness.ranges[order[i]], <<>>, <<>>)]

RECURSIVE insert_by_start(_, _)
\* Position of one scope in a list already sorted by range start, after its equals.
insert_by_start(sorted, scope) ==
    IF sorted = <<>> THEN <<scope>>
    ELSE IF scope.range[1] < sorted[1].range[1] THEN <<scope>> \o sorted
    ELSE <<sorted[1]>> \o insert_by_start(Tail(sorted), scope)

RECURSIVE sort_by_start(_)
\* scopes.sort_by_key(|s| s.range.0): a stable sort.
sort_by_start(scopes) ==
    IF scopes = <<>> THEN <<>>
    ELSE insert_by_start(sort_by_start(Front(scopes)), Last(scopes))

\* align_scopes
align_scopes(scopes, func) == sort_by_start(scopes)

\* merge_scopes with the test weakened to <=: abutting scopes merge too.
scope_overlaps_or_abuts(scope, last) == scope.range[1] <= last.range[2]

\* The test of merge_scopes that extends the previous scope.
scope_overlaps(scope, last) == scope.range[1] < last.range[2]

RECURSIVE merge_fold(_, _)
merge_fold(merged, scopes) ==
    IF scopes = <<>> THEN merged
    ELSE
    LET scope == scopes[1]
        next == IF merged # <<>> /\ scope_overlaps(scope, Last(merged))
                THEN [merged EXCEPT ![Len(merged)].range[2] =
                                     IF @ >= scope.range[2] THEN @ ELSE scope.range[2]]
                ELSE Append(merged, scope)
    IN  Force(next, merge_fold(next, Tail(scopes)))

\* merge_scopes
merge_scopes(scopes) ==
    IF scopes = <<>> THEN scopes ELSE merge_fold(<<>>, sort_by_start(scopes))

\* get_operand_identifiers
get_operand_identifiers(value) ==
    IF value.kind = "StoreLocal" THEN <<value.args[2]>>
    ELSE IF value.kind = "Constant" THEN <<>>
    ELSE value.args

\* The dependency test of propagate_dependencies: the start of the operand's
\* liveness range (the hull of its alias class) is before the scope.
is_dependency(used, scope, liveness) ==
    used \in DOMAIN liveness.ranges /\ liveness.ranges[used][1] < scope.range[1]

\* propagate_dependencies, for one scope.
propagate_scope(scope, instructions, liveness) ==
    LET indices == { idx \in scope.range[1]..(scope.range[2] - 1) : idx < Len(instructions) }
        decls == { instructions[idx + 1].lvalue : idx \in indices }
        deps == UNION { { used \in Range(get_operand_identifiers(instructions[idx + 1].value)) :
                            is_dependency(used, scope, liveness) } : idx \in indices }
    IN  [scope EXCEPT !.dependencies = SortedIdentifiers(deps),
                      !.declarations = SortedIdentifiers(decls)]

propagate_dependencies(func, scopes, liveness) ==
    LET instructions == linearize_instructions(func)
    IN  [i \in 1..Len(scopes) |-> propagate_scope(scopes[i], instructions, liveness)]

\* instruction_scopes: later scopes overwrite earlier ones.
instruction_scopes_of(scopes) ==
    LET covered == UNION { scopes[i].range[1]..(scopes[i].range[2] - 1) : i \in 1..Len(scopes) }
        last(idx) == CHOOSE i \in 1..Len(scopes) :
                        /\ idx \in scopes[i].range[1]..(scopes[i].range[2] - 1)
                        /\ \A j \in (i + 1)..Len(scopes) :
                              idx \notin scopes[j].range[1]..(scopes[j].range[2] - 1)
    IN  [idx \in covered |-> scopes[last(idx)].id]

\* construct_reactive_scopes
construct_reactive_scopes(func, liveness, seed) ==
    LET inferred == infer_scopes(func, liveness, seed)
        aligned == align_scopes(inferred, func)
        merged == merge_scopes(aligned)
        scopes == propagate_dependencies(func, merged, liveness)
    IN  [scopes |-> scopes, instruction_scopes |-> instruction_scopes_of(scopes)]

(***************************************************************************)
(* hir/reactive_function.rs                                                *)
(***************************************************************************)
\* ReactiveValue reuses the record shape of InstructionValue; op holds the
\* operator text.
NoValue == IValue("None", "", 0, <<>>, <<>>, <<>>)

NoIdentifier == Identifier(<<>>, 0)

\* ReactiveStatement: one record shape for every variant.
\*   test   If/While/Switch: <<test>>; Return: the optional value
\*   body   If: consequent; While/Scope: body
\*   cases  Switch: sequence of [label, body], label None for default
ReactiveStatement(kind, lvalue, value, test, body, alternate, cases) ==
    [kind |-> kind, lvalue |-> lvalue, value |-> value, test |-> test,
     body |-> body, alternate |-> alternate, cases |-> cases]

RInstruction(lvalue, value) ==
    ReactiveStatement("Instruction", lvalue, value, None, <<>>, <<>>, <<>>)

RIf(test, consequent, alternate) ==
    ReactiveStatement("If", NoIdentifier, NoValue, Some(test), consequent, alternate, <<>>)

RWhile(test, body) ==
    ReactiveStatement("While", NoIdentifier, NoValue, Some(test), body, <<>>, <<>>)

RBreak == ReactiveStatement("Break", NoIdentifier, NoValue, None, <<>>, <<>>, <<>>)

RContinue == ReactiveStatement("Continue", NoIdentifier, NoValue, None, <<>>, <<>>, <<>>)

RReturn(value) == ReactiveStatement("Return", NoIdentifier, NoValue, value, <<>>, <<>>, <<>>)

RSwitch(test, cases) ==
    ReactiveStatement("Switch", NoIdentifier, NoValue, Some(test), <<>>, <<>>, cases)

ReactiveSwitchCase(label, body) == [label |-> label, body |-> body]

\* ReactiveStatement::Scope { id, dependencies, declarations, body }
RScope(id, dependencies, declarations, body) ==
    [kind |-> "Scope", lvalue |-> NoIdentifier, value |-> NoValue, test |-> None,
     body |-> body, alternate |-> <<>>, cases |-> <<>>,
     id |-> id, dependencies |-> dependencies, declarations |-> declarations]

TreeLoopInfo(header, break_target) == [header |-> header, break_target |-> break_target]

\* convert_instruction: the operator text of a BinaryOperator / UnaryOperator.
operator_str(op) ==
    CASE op = "Add" -> "+"
      [] op = "Sub" -> "-"
      [] op = "Mul" -> "*"
      [] op = "Div" -> "/"
      [] op = "Mod" -> "%"
      [] op = "LessThan" -> "<"
      [] op = "LessThanEqual" -> "<="
      [] op = "GreaterThan" -> ">"
      [] op = "GreaterThanEqual" -> ">="
      [] op = "Equal" -> "=="
      [] op = "NotEqual" -> "!="
      [] op = "StrictEqual" -> "==="
      [] op = "StrictNotEqual" -> "!=="
      [] op = "BitwiseAnd" -> "&"
      [] op = "BitwiseOr" -> "|"
      [] op = "BitwiseXor" -> "^"
      [] op = "LeftShift" -> "<<"
      [] op = "RightShift" -> ">>"
      [] op = "UnsignedRightShift" -> ">>>"
      [] op = "InstanceOf" -> "instanceof"
      [] op = "In" -> "in"
      [] op = "Not" -> "!"
      [] op = "IsNullish" -> "__isNullish__"
      [] OTHER -> op

\* convert_instruction
convert_instruction(instr) ==
    LET v == instr.value
        value == CASE v.kind \in {"BinaryOp", "UnaryOp"} -> [v EXCEPT !.op = operator_str(@)]
                   [] v.kind = "StoreLocal" -> LoadLocal(v.args[2])
                   [] v.kind = "Phi" -> Phi(v.args, <<>>)
                   [] OTHER -> v
    IN  RInstruction(instr.lvalue, value)

\* emit_phi_assignments, and step 1 of build_block: for each Phi of the
\* target, one copy per operand labelled with the block control comes from.
emit_phi_assignments(hir, target_id, current_id) ==
    IF target_id \notin DOMAIN hir.blocks THEN <<>>
    ELSE
    LET instrs == hir.blocks[target_id].instructions
        copies(instr) ==
            IF instr.value.kind # "Phi" THEN <<>>
            ELSE SeqSum([k \in 1..Len(instr.value.args) |->
                            IF instr.value.blocks[k] = current_id
                            THEN <<RInstruction(instr.lvalue, LoadLocal(instr.value.args[k]))>>
                            ELSE <<>>])
    IN  SeqSum([i \in 1..Len(instrs) |-> copies(instrs[i])])

\* The instructions of a block that are not Phis, converted.
converted_instructions(block) ==
    SeqSum([i \in 1..Len(block.instructions) |->
               IF block.instructions[i].value.kind = "Phi" THEN <<>>
               ELSE <<convert_instruction(block.instructions[i])>>])

\* The Goto arm's test for break / continue: only the innermost entry of
\* loop_stack is consulted.
goto_exit(loop_stack, target) ==
    IF loop_stack = <<>> THEN "none"
    ELSE IF target = Last(loop_stack).break_target THEN "break"
    ELSE IF target = Last(loop_stack).header THEN "continue"
    ELSE "none"

RECURSIVE build_block(_, _, _, _, _)
RECURSIVE build_cases(_, _, _, _, _, _)
\* TreeBuilder::build_block.  visited_blocks and loop_stack are passed down:
\* every path through the function leaves both as it found them.
build_block(hir, block_id, prev_id, visited, loop_stack) ==
    LET phis == IF prev_id = None THEN <<>>
                ELSE emit_phi_assignments(hir, block_id, prev_id[1])
    IN
    IF block_id \in visited \/ block_id \notin DOMAIN hir.blocks THEN phis
    ELSE
    LET block == hir.blocks[block_id]
        term == block.terminal
        seen == visited \cup {block_id}
        me == Some(block_id)
    IN
    IF block_id \in hir.loop_headers THEN
        IF term.kind = "If" THEN
            LET inner == Append(loop_stack, TreeLoopInfo(block_id, term.targets[2]))
                loop_body ==
                    converted_instructions(block)
                    \o <<RIf(term.value[1], <<>>, <<RBreak>>)>>
                    \o build_block(hir, term.targets[1], me, seen, inner)
            IN  phis
                \o <<RWhile(Identifier(<<"t", "r", "u", "e">>, 0), loop_body)>>
                \o build_block(hir, term.targets[2], me, seen, loop_stack)
        ELSE phis
    ELSE
    LET body == phis \o converted_instructions(block)
    IN  CASE term.kind = "Return" -> Append(body, RReturn(term.value))
          [] term.kind = "Goto" ->
                LET target == term.targets[1]
                    exit == goto_exit(loop_stack, target)
                IN  IF exit = "break"
                    THEN body \o emit_phi_assignments(hir, target, block_id) \o <<RBreak>>
                    ELSE IF exit = "continue"
                    THEN body \o emit_phi_assignments(hir, target, block_id) \o <<RContinue>>
                    ELSE body \o build_block(hir, target, me, seen, loop_stack)
          [] term.kind = "If" ->
                Append(body, RIf(term.value[1],
                                 build_block(hir, term.targets[1], me, seen, loop_stack),
                                 build_block(hir, term.targets[2], me, seen, loop_stack)))
          [] term.kind = "Switch" ->
                LET inner == IF term.merge_target # None
                             THEN Append(loop_stack, TreeLoopInfo(block_id, term.merge_target[1]))
                             ELSE loop_stack
                    cases == build_cases(hir, term, 1, block_id, seen, inner)
                             \o <<ReactiveSwitchCase(None,
                                     build_block(hir, term.default[1], me, seen, inner))>>
                IN  Append(body, RSwitch(term.value[1], cases))

build_cases(hir, term, i, block_id, visited, loop_stack) ==
    IF i > Len(term.targets) THEN <<>>
    ELSE <<ReactiveSwitchCase(Some(term.labels[i]),
                              build_block(hir, term.targets[i], Some(block_id), visited, loop_stack))>>
         \o build_cases(hir, term, i + 1, block_id, visited, loop_stack)

ReactiveFunction(name, params, body) == [name |-> name, params |-> params, body |-> body]

\* build_reactive_function / TreeBuilder::build.  scope_result is accepted
\* and never read.
build_reactive_function(hir, scope_result) ==
    ReactiveFunction(hir.name, hir.params, build_block(hir, hir.entry_block, None, {}, <<>>))

(***************************************************************************)
(* The functions handed to compile (lib.rs): a declaration of one local,   *)
(* a bounded sequence of statement fragments over that local and the       *)
(* parameter, and the return of the local.                                 *)
(***************************************************************************)
MaxFragments == 1

\* Bounds of the scope lists handed to merge_scopes on its own.
MaxScopes == 3

MaxIndex == 4

InputName == <<"x">>

OtherName == <<"b">>

LocalNames == { <<"r">>, <<"t", "2">> }

ParamForms == { "identifier", "pattern" }

\* function f(x) / function f({x, b})
ParamsOf(form) ==
    IF form = "identifier" THEN <<Id(InputName)>>
    ELSE <<ObjectPattern(<<Id(InputName), Id(OtherName)>>)>>

X == Id(InputName)

\* switch (x) { case 1: v += 1; case 2: v += 2; break; case 3: v += 4; }
SwitchFragment(v) ==
    <<SwitchStmt(X, <<Case(Some(Num(1)), <<ExprStmt(Assign("+=", Id(v), Num(1)))>>),
                      Case(Some(Num(2)), <<ExprStmt(Assign("+=", Id(v), Num(2))), BreakStmt>>),
                      Case(Some(Num(3)), <<ExprStmt(Assign("+=", Id(v), Num(4)))>>)>>)>>

\* for (let i = 0; i < x; i++) { if (i === 1) { continue; } v += i; }
ForFragment(v) ==
    LET i == Id(<<"i">>)
    IN  <<ForStmt(Some(Let(<<"i">>, Num(0))), Some(Bin("<", i, X)),
                  Some(Update("++", 0, i)),
                  Block(<<IfStmt(Bin("===", i, Num(1)), Block(<<ContinueStmt>>), None),
                          ExprStmt(Assign("+=", Id(v), i))>>))>>

\* while (v < x) { v += 1; switch (v) { case 1: continue; } v += 1; }
ContinueInSwitchFragment(v) ==
    <<WhileStmt(Bin("<", Id(v), X),
                Block(<<ExprStmt(Assign("+=", Id(v), Num(1))),
                        SwitchStmt(Id(v), <<Case(Some(Num(1)), <<ContinueStmt>>)>>),
                        ExprStmt(Assign("+=", Id(v), Num(1)))>>))>>

\* while (v < x) { v += 1; if (v === 2) { v = 7; break; } }
BreakFragment(v) ==
    <<WhileStmt(Bin("<", Id(v), X),
                Block(<<ExprStmt(Assign("+=", Id(v), Num(1))),
                        IfStmt(Bin("===", Id(v), Num(2)),
                               Block(<<ExprStmt(Assign("=", Id(v), Num(7))), BreakStmt>>),
                               None)>>))>>

Fragments(v) ==
    { \* v += x;
      <<ExprStmt(Assign("+=", Id(v), X))>>,
      \* if (x < 2) { v = 1; }
      <<IfStmt(Bin("<", X, Num(2)), Block(<<ExprStmt(Assign("=", Id(v), Num(1)))>>), None)>>,
      \* if (x < 2) { v = 1; } else { v = 2; }
      <<IfStmt(Bin("<", X, Num(2)), Block(<<ExprStmt(Assign("=", Id(v), Num(1)))>>),
               Some(Block(<<ExprStmt(Assign("=", Id(v), Num(2)))>>)))>>,
      \* if (x < 2) { return x; }
      <<IfStmt(Bin("<", X, Num(2)), Block(<<ReturnStmt(Some(X))>>), None)>>,
      SwitchFragment(v),
      \* while (v < x) { v += 1; }
      <<WhileStmt(Bin("<", Id(v), X), Block(<<ExprStmt(Assign("+=", Id(v), Num(1)))>>))>>,
      ForFragment(v),
      \* v = x + b;
      <<ExprStmt(Assign("=", Id(v), Bin("+", X, Id(OtherName))))>>,
      \* v = x ? 1 : 2;
      <<ExprStmt(Assign("=", Id(v), Cond(X, Num(1), Num(2))))>>,
      \* { x; let y = 1; v = y + x; }
      <<Block(<<ExprStmt(X), Let(<<"y">>, Num(1)),
                ExprStmt(Assign("=", Id(v), Bin("+", Id(<<"y">>), X)))>>)>>,
      \* o.p += 1;
      <<ExprStmt(Assign("+=", Member(Id(<<"o">>), <<"p">>), Num(1)))>>,
      \* ({x, b} += 1);
      <<ExprStmt(Assign("+=", ObjectPattern(<<X, Id(OtherName)>>), Num(1)))>>,
      \* v **= 2;
      <<ExprStmt(Assign("**=", Id(v), Num(2)))>>,
      \* v ??= 2;
      <<ExprStmt(Assign("??=", Id(v), Num(2)))>>,
      \* x = x + 1; v = x;
      <<ExprStmt(Assign("=", X, Bin("+", X, Num(1)))), ExprStmt(Assign("=", Id(v), X))>>,
      \* if (x < 2) { return x; v = 1; }
      <<IfStmt(Bin("<", X, Num(2)),
               Block(<<ReturnStmt(Some(X)), ExprStmt(Assign("=", Id(v), Num(1)))>>), None)>>,
      \* if (x < 2) { if (x < 1) { v = 1; } }
      <<IfStmt(Bin("<", X, Num(2)),
               Block(<<IfStmt(Bin("<", X, Num(1)),
                              Block(<<ExprStmt(Assign("=", Id(v), Num(1)))>>), None)>>), None)>>,
      ContinueInSwitchFragment(v),
      BreakFragment(v) }

RECURSIVE FragmentSeqs(_, _)
\* The concatenations of at most n fragments.
FragmentSeqs(v, n) ==
    IF n = 0 THEN { <<>> }
    ELSE LET shorter == FragmentSeqs(v, n - 1)
         IN  shorter \cup { f \o rest : f \in Fragments(v), rest \in shorter }

\* function f(<params>) { let v = 0; <fragments> return v; }
ProgramsOf(form, v) ==
    { Function(<<"f">>, ParamsOf(form),
               <<Let(v, Num(0))>> \o body \o <<ReturnStmt(Some(Id(v)))>>) :
        body \in FragmentSeqs(v, MaxFragments) }

Programs == UNION { ProgramsOf(form, v) : form \in ParamForms, v \in LocalNames }

(***************************************************************************)
(* sprout.rs: the host runtime both texts are executed in.  JavaScript     *)
(* values, reduced to what the functions above compute with: numbers       *)
(* (integers), NaN, undefined, null, booleans and the argument object.     *)
(***************************************************************************)
Fuel == 8

\* The entrypoint is called with 0 .. MaxInput.
MaxInput == 4

JSValue(t, n) == [t |-> t, n |-> n]

JSNumber(n) == JSValue("number", n)

JSNaN == JSValue("NaN", 0)

JSUndefined == JSValue("undefined", 0)

JSNull == JSValue("null", 0)

JSBoolean(b) == JSValue("boolean", IF b THEN 1 ELSE 0)

\* The argument of f({x, b}): an object with x = n and b = n + 1.
JSObject(n) == JSValue("object", n)

\* A thrown ReferenceError, carried as a value until the caller catches it.
JSThrow == JSValue("throw", 0)

\* ToNumber.  (An object operand of + is concatenated as a string by the
\* runtime; no function above computes with the argument object itself.)
ToNumber(v) ==
    CASE v.t = "number" -> v
      [] v.t = "boolean" -> JSNumber(v.n)
      [] v.t = "null" -> JSNumber(0)
      [] OTHER -> JSNaN

ToBoolean(v) ==
    CASE v.t = "number" -> v.n # 0
      [] v.t = "boolean" -> v.n = 1
      [] v.t = "object" -> TRUE
      [] OTHER -> FALSE

StrictEquals(l, r) == l.t = r.t /\ l.t # "NaN" /\ l.n = r.n

IsNullish(v) == v.t \in {"undefined", "null"}

\* The binary operators, by their text.
js_binary(op, l, r) ==
    LET a == ToNumber(l)
        b == ToNumber(r)
        nan == a.t = "NaN" \/ b.t = "NaN"
    IN  IF l.t = "throw" \/ r.t = "throw" THEN JSThrow
        ELSE CASE op = "+" -> IF nan THEN JSNaN ELSE JSNumber(a.n + b.n)
               [] op = "-" -> IF nan THEN JSNaN ELSE JSNumber(a.n - b.n)
               [] op = "*" -> IF nan THEN JSNaN ELSE JSNumber(a.n * b.n)
               [] op = "<" -> JSBoolean(~nan /\ a.n < b.n)
               [] op = "<=" -> JSBoolean(~nan /\ a.n <= b.n)
               [] op = ">" -> JSBoolean(~nan /\ a.n > b.n)
               [] op = ">=" -> JSBoolean(~nan /\ a.n >= b.n)
               [] op = "===" -> JSBoolean(StrictEquals(l, r))
               [] op = "!==" -> JSBoolean(~StrictEquals(l, r))
               [] OTHER -> JSThrow

\* JSON.stringify({ success: true, result }) of generate_runner: undefined is
\* dropped from the object, NaN is written as null.
json_result(v) ==
    CASE v.t = "undefined" -> "{success:true}"
      [] v.t \in {"NaN", "null"} -> "{success:true,result:null}"
      [] v.t = "boolean" -> IF v.n = 1 THEN "{success:true,result:true}"
                            ELSE "{success:true,result:false}"
      [] v.t = "number" -> "{success:true,result:" \o ToString(v.n) \o "}"
      [] v.t = "object" -> "{success:true,result:{}}"
      [] OTHER -> "{success:false}"

\* The outcome of one execution: how it ended and with what.
Outcome(signal, value) == [signal |-> signal, value |-> value]

\* The line generate_runner prints for an outcome.
runner_output(outcome) ==
    IF outcome.signal = "return" THEN json_result(outcome.value)
    ELSE IF outcome.signal = "normal" THEN json_result(JSUndefined)
    ELSE IF outcome.signal = "throw" THEN "{success:false}"
    ELSE IF outcome.signal = "syntax" THEN ""
    ELSE "timeout"

(***************************************************************************)
(* Execution of the original text: the function AST under the runtime's    *)
(* semantics.  env maps a declared name to its value.                      *)
(***************************************************************************)
Done(env, signal, value) == [env |-> env, signal |-> signal, value |-> value]

\* The binary operator a compound assignment operator applies.
compound_binary(op) ==
    CASE op = "+=" -> "+"
      [] op = "-=" -> "-"
      [] op = "*=" -> "*"
      [] OTHER -> "unsupported"

RECURSIVE js_eval(_, _)
RECURSIVE js_exec(_, _)
RECURSIVE js_exec_list(_, _)
RECURSIVE js_loop(_, _, _, _, _)
RECURSIVE js_match_case(_, _, _, _)

\* Evaluation of an expression: R(env after, value).
js_eval(env, e) ==
    CASE e.k = "NumericLiteral" -> R(env, JSNumber(e.n))
      [] e.k = "NullLiteral" -> R(env, JSNull)
      [] e.k = "Identifier" -> R(env, IF e.s \in DOMAIN env THEN env[e.s] ELSE JSThrow)
      [] e.k = "BinaryExpression" ->
            Bind([l \in {js_eval(env, e.a[1])} |->
            Bind([r \in {js_eval(l.ctx, e.b[1])} |->
                R(r.ctx, js_binary(e.s[1], l.val, r.val))])])
      [] e.k = "LogicalExpression" ->
            Bind([l \in {js_eval(env, e.a[1])} |->
                IF l.val.t = "throw" THEN l
                ELSE IF CASE e.s[1] = "&&" -> ~ToBoolean(l.val)
                          [] e.s[1] = "||" -> ToBoolean(l.val)
                          [] OTHER -> ~IsNullish(l.val)
                THEN l
                ELSE js_eval(l.ctx, e.b[1])])
      [] e.k = "ConditionalExpression" ->
            Bind([t \in {js_eval(env, e.a[1])} |->
                IF t.val.t = "throw" THEN t
                ELSE IF ToBoolean(t.val) THEN js_eval(t.ctx, e.b[1])
                ELSE js_eval(t.ctx, e.c[1])])
      [] e.k = "UpdateExpression" /\ e.a[1].k = "Identifier" ->
            IF e.a[1].s \notin DOMAIN env THEN R(env, JSThrow)
            ELSE
            Bind([old \in {ToNumber(env[e.a[1].s])} |->
            Bind([new \in {js_binary(IF e.s[1] = "++" THEN "+" ELSE "-", old,
                                     JSNumber(1))} |->
                R(MapPut(env, e.a[1].s, new), IF e.n = 1 THEN new ELSE old)])])
      [] e.k = "AssignmentExpression" /\ e.a[1].k = "Identifier" ->
            Bind([old \in {IF e.a[1].s \in DOMAIN env THEN env[e.a[1].s] ELSE JSThrow} |->
            Bind([r \in {js_eval(env, e.b[1])} |->
            Bind([value \in {IF e.s[1] = "=" THEN r.val
                             ELSE js_binary(compound_binary(e.s[1]), old, r.val)} |->
                IF value.t = "throw" \/ e.a[1].s \notin DOMAIN r.ctx THEN R(r.ctx, JSThrow)
                ELSE R(MapPut(r.ctx, e.a[1].s, value), value)])])])
      [] OTHER -> R(env, JSThrow)

\* The statements a switch runs once it enters at case `entry`: the
\* consequents of that case and of the cases after it.
js_switch_body(cases, entry) ==
    SeqSum([i \in 1..Len(cases) |-> IF i >= entry THEN cases[i].b ELSE <<>>])

\* A break ends the enclosing switch or loop normally.
js_break_caught(ran) ==
    IF ran.signal = "break" THEN Done(ran.env, "normal", JSUndefined) ELSE ran

\* Execution of a statement: Done(env after, how it ended, returned value).
js_exec(env, s) ==
    CASE s.k = "ReturnStatement" ->
            IF s.a = <<>> THEN Done(env, "return", JSUndefined)
            ELSE Bind([v \in {js_eval(env, s.a[1])} |->
                     Done(v.ctx, IF v.val.t = "throw" THEN "throw" ELSE "return", v.val)])
      [] s.k = "VariableDeclaration" ->
            Bind([v \in {IF s.a[1].b = <<>> THEN R(env, JSUndefined)
                         ELSE js_eval(env, s.a[1].b[1])} |->
                IF v.val.t = "throw" THEN Done(v.ctx, "throw", v.val)
                ELSE Done(MapPut(v.ctx, s.a[1].a[1].s, v.val), "normal", JSUndefined)])
      [] s.k = "ExpressionStatement" ->
            Bind([v \in {js_eval(env, s.a[1])} |->
                Done(v.ctx, IF v.val.t = "throw" THEN "throw" ELSE "normal", JSUndefined)])
      [] s.k = "IfStatement" ->
            Bind([t \in {js_eval(env, s.a[1])} |->
                IF t.val.t = "throw" THEN Done(t.ctx, "throw", t.val)
                ELSE IF ToBoolean(t.val) THEN js_exec(t.ctx, s.b[1])
                ELSE IF s.c # <<>> THEN js_exec(t.ctx, s.c[1])
                ELSE Done(t.ctx, "normal", JSUndefined)])
      [] s.k = "WhileStatement" -> js_loop(env, s.a, s.b[1], <<>>, Fuel)
      [] s.k = "ForStatement" ->
            Bind([init \in {IF s.d = <<>> THEN Done(env, "normal", JSUndefined)
                            ELSE IF s.d[1].k = "VariableDeclaration"
                            THEN js_exec(env, s.d[1])
                            ELSE js_exec(env, ExprStmt(s.d[1]))} |->
                IF init.signal # "normal" THEN init
                ELSE js_loop(init.env, s.a, s.b[1], s.c, Fuel)])
      [] s.k = "BlockStatement" -> js_exec_list(env, s.b)
      [] s.k = "BreakStatement" -> Done(env, "break", JSUndefined)
      [] s.k = "ContinueStatement" -> Done(env, "continue", JSUndefined)
      [] s.k = "SwitchStatement" ->
            Bind([d \in {js_eval(env, s.a[1])} |->
                IF d.val.t = "throw" THEN Done(d.ctx, "throw", d.val)
                ELSE
                Bind([entry \in {js_match_case(d.val, s.b, 1, 0)} |->
                    IF entry = 0 THEN Done(d.ctx, "normal", JSUndefined)
                    ELSE js_break_caught(
                             js_exec_list(d.ctx, js_switch_body(s.b, entry)))])])
      [] OTHER -> Done(env, "normal", JSUndefined)

js_exec_list(env, stmts) ==
    IF stmts = <<>> THEN Done(env, "normal", JSUndefined)
    ELSE Bind([first \in {js_exec(env, stmts[1])} |->
             IF first.signal # "normal" THEN first
             ELSE js_exec_list(first.env, Tail(stmts))])

\* while (test) body  /  for (; test; update) body, at most `fuel` iterations.
js_loop(env, test, body, update, fuel) ==
    IF fuel = 0 THEN Done(env, "diverge", JSUndefined)
    ELSE
    Bind([t \in {IF test = <<>> THEN R(env, JSBoolean(TRUE))
                 ELSE js_eval(env, test[1])} |->
        IF t.val.t = "throw" THEN Done(t.ctx, "throw", t.val)
        ELSE IF ~ToBoolean(t.val) THEN Done(t.ctx, "normal", JSUndefined)
        ELSE
        Bind([ran \in {js_exec(t.ctx, body)} |->
            IF ran.signal = "break" THEN Done(ran.env, "normal", JSUndefined)
            ELSE IF ran.signal \notin {"normal", "continue"} THEN ran
            ELSE
            Bind([stepped \in {IF update = <<>> THEN R(ran.env, JSUndefined)
                               ELSE js_eval(ran.env, update[1])} |->
                IF stepped.val.t = "throw" THEN Done(stepped.ctx, "throw", stepped.val)
                ELSE js_loop(stepped.ctx, test, body, update, fuel - 1)])])])

\* The index of the case a switch enters: the first whose test is strictly
\* equal to the discriminant, else the default case, else 0.
js_match_case(d, cases, i, default) ==
    IF i > Len(cases) THEN default
    ELSE IF cases[i].a = <<>> THEN js_match_case(d, cases, i + 1, i)
    ELSE IF StrictEquals(d, js_eval(<<>>, cases[i].a[1]).val) THEN i
    ELSE js_match_case(d, cases, i + 1, default)

\* The value the pattern or identifier parameter binds InputName to, and the
\* argument the entrypoint passes for input n.
argument_of(func, n) ==
    IF func.params[1].k = "Identifier" THEN JSNumber(n) ELSE JSObject(n)

\* fn(...params) on the original text.
run_original(func, n) ==
    Bind([ran \in {js_exec_list(IF func.params[1].k = "Identifier"
                                THEN (func.params[1].s :> JSNumber(n))
                                ELSE (InputName :> JSNumber(n))
                                     @@ (OtherName :> JSNumber(n + 1)),
                                func.body)} |->
        Outcome(ran.signal, ran.value)])

(***************************************************************************)
(* codegen.rs: the names the emitted text gives to identifiers, and the    *)
(* declarations it emits                                                   *)
(***************************************************************************)
ReservedNames ==
    { <<"t", "r", "u", "e">>, <<"f", "a", "l", "s", "e">>, <<"n", "u", "l", "l">>,
      <<"u", "n", "d", "e", "f", "i", "n", "e", "d">> }

\* The is_temp test of get_canonical_name and collect_declarations:
\*   starts_with('t') && len() > 1 && name[1..] all ascii digits
is_temp_canonical(name) == Len(name) > 1 /\ is_temp_name(name)

\* get_canonical_name
get_canonical_name(id) ==
    IF is_temp_canonical(id.name) \/ id.name \in ReservedNames THEN id.name
    ELSE id.name \o <<"_">> \o Digits(id.id)

RECURSIVE collect_declarations(_)
\* collect_declarations over a statement list: the lvalues that are hoisted.
collect_declarations(stmts) ==
    IF stmts = <<>> THEN {}
    ELSE LET s == stmts[1]
             here == CASE s.kind = "Instruction" ->
                            IF is_temp_canonical(s.lvalue.name) \/ s.lvalue.name \in ReservedNames
                            THEN {} ELSE {s.lvalue}
                       [] s.kind = "If" ->
                            collect_declarations(s.body) \cup collect_declarations(s.alternate)
                       [] s.kind \in {"While", "Scope"} -> collect_declarations(s.body)
                       [] s.kind = "Switch" ->
                            UNION {collect_declarations(s.cases[i].body) : i \in 1..Len(s.cases)}
                       [] OTHER -> {}
         IN  here \cup collect_declarations(Tail(stmts))

\* CodeGenerator after the hoisting pass of generate_function.
CodeGenerator(func) ==
    LET hoisted == collect_declarations(func.body)
        params == {func.params[i].name : i \in 1..Len(func.params)}
    IN  [params |-> params,
         declared |-> {get_canonical_name(id) : id \in hoisted} \ params,
         declared_base_names |-> {id.name : id \in hoisted}]

\* identifier_name
identifier_name(cg, id) ==
    IF id.name \in cg.params THEN id.name
    ELSE IF id.id = 0
    THEN IF id.name \in cg.declared_base_names
         THEN <<"u", "n", "d", "e", "f", "i", "n", "e", "d">>
         ELSE id.name
    ELSE get_canonical_name(id)

\* generate_instruction: what is written for an Instruction statement.
\*   "skip"    nothing (LoadLocal whose source has the name of the lvalue)
\*   "const"   const lvalue = rvalue;
\*   "assign"  lvalue = rvalue;
\*   "let"     let lvalue = rvalue;
generate_instruction(cg, s) ==
    LET lvalue == identifier_name(cg, s.lvalue)
    IN  IF s.value.kind = "LoadLocal" /\ identifier_name(cg, s.value.args[1]) = lvalue
        THEN "skip"
        ELSE IF is_temp_name(s.lvalue.name) \/ s.lvalue.name \in ReservedNames THEN "const"
        ELSE IF lvalue \in cg.declared THEN "assign"
        ELSE "let"

\* The names a statement list declares in its own block (const / let).
block_declarations(cg, stmts) ==
    SeqSum([i \in 1..Len(stmts) |->
               IF stmts[i].kind = "Instruction"
                  /\ generate_instruction(cg, stmts[i]) \in {"const", "let"}
               THEN <<identifier_name(cg, stmts[i].lvalue)>> ELSE <<>>])

RECURSIVE redeclares(_, _, _)
\* The emitted text declares a name twice in one block (a SyntaxError when
\* the text is loaded): stmts is the block, outer the names its scope
\* already holds.
redeclares(cg, stmts, outer) ==
    LET names == block_declarations(cg, stmts)
        inner(s) == CASE s.kind = "If" ->
                           redeclares(cg, s.body, {}) \/ redeclares(cg, s.alternate, {})
                      [] s.kind = "While" -> redeclares(cg, s.body, {})
                      [] s.kind = "Switch" ->
                           \E i \in 1..Len(s.cases) : redeclares(cg, s.cases[i].body, {})
                      [] OTHER -> FALSE
    IN  \/ \E i \in 1..Len(names) : names[i] \in outer
        \/ \E i, j \in 1..Len(names) : i < j /\ names[i] = names[j]
        \/ \E i \in 1..Len(stmts) : inner(stmts[i])

RECURSIVE slot_sum(_)
\* The sum over the scopes of dependencies.len() + declarations.len().
slot_sum(scope_list) ==
    IF scope_list = <<>> THEN 0
    ELSE Len(scope_list[1].dependencies) + Len(scope_list[1].declarations)
         + slot_sum(Tail(scope_list))

RECURSIVE dependency_sum(_)
dependency_sum(scope_list) ==
    IF scope_list = <<>> THEN 0
    ELSE Len(scope_list[1].dependencies) + dependency_sum(Tail(scope_list))

\* The cache size with the declarations left out of the sum.
cache_size_of_dependencies(scope_result) == Max2(dependency_sum(scope_result.scopes), 1)

\* CodeGenerator::new: the size of the cache, at least 1.
cache_size(scope_result) == Max2(slot_sum(scope_result.scopes), 1)

\* One use of a cache slot in the emitted text.
\*   "test"   $[index] !== name  (or $[0] === sentinel, name empty)
\*   "store"  $[index] = name;
\*   "load"   const name = $[index];
CacheAccess(kind, index, name) == [kind |-> kind, index |-> index, name |-> name]

\* generate_scope: the cache slots the guarded region of one Scope statement
\* uses, in the order they are written, the statements of the body left out.
generate_scope(cg, dependencies, declarations, body) ==
    IF dependencies = <<>> /\ body = <<>> THEN <<>>
    ELSE
    LET dep_count == Len(dependencies)
    IN  (IF dependencies = <<>> THEN <<CacheAccess("test", 0, <<>>)>>
         ELSE [i \in 1..dep_count |->
                  CacheAccess("test", i - 1, identifier_name(cg, dependencies[i]))])
        \o [i \in 1..dep_count |->
               CacheAccess("store", i - 1, identifier_name(cg, dependencies[i]))]
        \o [i \in 1..Len(declarations) |->
               CacheAccess("store", dep_count + (i - 1), identifier_name(cg, declarations[i]))]
        \o [i \in 1..Len(declarations) |->
               CacheAccess("load", dep_count + (i - 1), identifier_name(cg, declarations[i]))]

RECURSIVE insert_name(_, _)
insert_name(sorted, name) ==
    IF sorted = <<>> THEN <<name>>
    ELSE IF NameLess(name, sorted[1]) THEN <<name>> \o sorted
    ELSE <<sorted[1]>> \o insert_name(Tail(sorted), name)

RECURSIVE sort_names(_)
\* sorted_vars.sort() on the names collected from the declared set.
sort_names(names) ==
    IF names = <<>> THEN <<>>
    ELSE insert_name(sort_names(Front(names)), Last(names))

\* One line of the emitted text ahead of the body.
\*   "cache"  const $ = _c(size);
\*   "let"    let names[1], names[2], ...;
CodeLine(kind, size, names) == [kind |-> kind, size |-> size, names |-> names]

\* generate_function: the emitted text, as the parameter list, the lines
\* written ahead of the body, and the statements of the body.  seed fixes
\* the iteration order of the declared set.
generate_function(func, scope_result, seed) ==
    LET cg == CodeGenerator(func)
        sorted_vars == sort_names(iteration_order(SortedNames(cg.declared), seed))
    IN  [params |-> [i \in 1..Len(func.params) |-> identifier_name(cg, func.params[i])],
         prologue |->
            (IF scope_result.scopes # <<>>
             THEN <<CodeLine("cache", cache_size(scope_result), <<>>)>> ELSE <<>>)
            \o (IF cg.declared # {} THEN <<CodeLine("let", 0, sorted_vars)>> ELSE <<>>),
         body |-> func.body]

(***************************************************************************)
(* Execution of the emitted text: the statements generate_statement writes *)
(* for the tree, under the runtime's semantics (an ES module: strict mode, *)
(* block-scoped const / let).  frames is the scope chain, innermost last.  *)
(***************************************************************************)
\* A binding that is declared in its block and not yet initialized.
JSUninitialized == JSValue("uninitialized", 0)

\* The frame of a block on entry: every name it declares, uninitialized.
block_frame(cg, stmts) ==
    LET names == block_declarations(cg, stmts)
    IN  [name \in Range(names) |-> JSUninitialized]

RECURSIVE frame_of(_, _, _)
\* The innermost frame at or below i that binds the name; 0 if none does.
frame_of(frames, name, i) ==
    IF i = 0 THEN 0
    ELSE IF name \in DOMAIN frames[i] THEN i
    ELSE frame_of(frames, name, i - 1)

\* The value the text of an identifier evaluates to.
read_name(frames, name) ==
    LET i == frame_of(frames, name, Len(frames))
    IN  CASE name = <<"t", "r", "u", "e">> -> JSBoolean(TRUE)
          [] name = <<"f", "a", "l", "s", "e">> -> JSBoolean(FALSE)
          [] name = <<"n", "u", "l", "l">> -> JSNull
          [] i # 0 -> IF frames[i][name] = JSUninitialized THEN JSThrow ELSE frames[i][name]
          [] name = <<"u", "n", "d", "e", "f", "i", "n", "e", "d">> -> JSUndefined
          [] OTHER -> JSThrow

read_identifier(cg, frames, id) == read_name(frames, identifier_name(cg, id))

\* name = value in frame i.
write_frame(frames, i, name, value) ==
    [k \in 1..Len(frames) |-> IF k = i THEN (name :> value) @@ frames[k] ELSE frames[k]]

\* The value of the argument object's property.
property_of(object, property) ==
    CASE object.t = "object" /\ property = InputName -> JSNumber(object.n)
      [] object.t = "object" /\ property = OtherName -> JSNumber(object.n + 1)
      [] object.t \in {"undefined", "null", "throw"} -> JSThrow
      [] OTHER -> JSUndefined

\* The value operand i of an emitted expression evaluates to.
tree_operand(cg, frames, value, i) == read_identifier(cg, frames, value.args[i])

\* generate_value, evaluated.
tree_value(cg, frames, value) ==
    CASE value.kind = "Constant" ->
            CASE value.op = "Float" -> JSNumber(value.num)
              [] value.op = "Boolean" -> JSBoolean(value.num = 1)
              [] value.op = "Null" -> JSNull
              [] OTHER -> JSUndefined
      [] value.kind = "BinaryOp" ->
            js_binary(value.op, tree_operand(cg, frames, value, 1),
                      tree_operand(cg, frames, value, 2))
      [] value.kind = "UnaryOp" ->
            Bind([operand \in {tree_operand(cg, frames, value, 1)} |->
                CASE operand.t = "throw" -> JSThrow
                  [] value.op = "__isNullish__" -> JSBoolean(IsNullish(operand))
                  [] value.op = "!" -> JSBoolean(~ToBoolean(operand))
                  [] OTHER -> JSThrow])
      [] value.kind = "LoadLocal" -> tree_operand(cg, frames, value, 1)
      [] value.kind = "PropertyLoad" ->
            property_of(tree_operand(cg, frames, value, 1), value.property)
      [] value.kind = "Phi" ->
            IF value.args = <<>> THEN JSUndefined ELSE tree_operand(cg, frames, value, 1)
      [] OTHER -> JSThrow

RECURSIVE tree_exec(_, _, _)
RECURSIVE tree_exec_list(_, _, _)
RECURSIVE tree_block(_, _, _)
RECURSIVE tree_loop(_, _, _, _)
RECURSIVE tree_case(_, _, _, _, _)
RECURSIVE tree_cases_from(_, _, _, _)

\* The statement generate_instruction writes, executed: `how` is the form
\* written, `name` the text of the lvalue, `value` what the rvalue evaluates to.
tree_instruction(frames, how, name, value) ==
    IF how = "skip" THEN Done(frames, "normal", JSUndefined)
    ELSE IF value.t = "throw" THEN Done(frames, "throw", JSThrow)
    ELSE IF how = "assign"
    THEN Bind([bound \in {frame_of(frames, name, Len(frames))} |->
             IF bound = 0 \/ read_name(frames, name).t = "throw"
             THEN Done(frames, "throw", JSThrow)
             ELSE Done(write_frame(frames, bound, name, value), "normal", JSUndefined)])
    ELSE Done(write_frame(frames, Len(frames), name, value), "normal", JSUndefined)

\* One emitted statement: Done(frames after, how it ended, returned value).
tree_exec(cg, frames, s) ==
    CASE s.kind = "Instruction" ->
            tree_instruction(frames, generate_instruction(cg, s),
                             identifier_name(cg, s.lvalue),
                             tree_value(cg, frames, s.value))
      [] s.kind = "If" ->
            Bind([t \in {read_identifier(cg, frames, s.test[1])} |->
                IF t.t = "throw" THEN Done(frames, "throw", JSThrow)
                ELSE IF ToBoolean(t) THEN tree_block(cg, frames, s.body)
                ELSE IF s.alternate # <<>> THEN tree_block(cg, frames, s.alternate)
                ELSE Done(frames, "normal", JSUndefined)])
      [] s.kind = "While" -> tree_loop(cg, frames, s, Fuel)
      [] s.kind = "Break" -> Done(frames, "break", JSUndefined)
      [] s.kind = "Continue" -> Done(frames, "continue", JSUndefined)
      [] s.kind = "Return" ->
            Bind([v \in {IF s.test = <<>> THEN JSUndefined
                         ELSE read_identifier(cg, frames, s.test[1])} |->
                Done(frames, IF v.t = "throw" THEN "throw" ELSE "return", v)])
      [] s.kind = "Switch" ->
            Bind([d \in {read_identifier(cg, frames, s.test[1])} |->
                IF d.t = "throw" THEN Done(frames, "throw", JSThrow)
                ELSE
                Bind([entry \in {tree_case(cg, frames, d, s.cases, 1)} |->
                    IF entry = 0 THEN Done(frames, "throw", JSThrow)
                    ELSE js_break_caught(tree_cases_from(cg, frames, s.cases, entry))])])
      [] OTHER -> Done(frames, "throw", JSThrow)

tree_exec_list(cg, frames, stmts) ==
    IF stmts = <<>> THEN Done(frames, "normal", JSUndefined)
    ELSE Bind([first \in {tree_exec(cg, frames, stmts[1])} |->
             IF first.signal # "normal" THEN first
             ELSE tree_exec_list(cg, first.env, Tail(stmts))])

\* { stmts }
tree_block(cg, frames, stmts) ==
    Bind([ran \in {tree_exec_list(cg, Append(frames, block_frame(cg, stmts)), stmts)} |->
        Done(Front(ran.env), ran.signal, ran.value)])

\* while (test) { body }, at most `fuel` iterations.
tree_loop(cg, frames, s, fuel) ==
    IF fuel = 0 THEN Done(frames, "diverge", JSUndefined)
    ELSE
    Bind([t \in {read_identifier(cg, frames, s.test[1])} |->
        IF t.t = "throw" THEN Done(frames, "throw", JSThrow)
        ELSE IF ~ToBoolean(t) THEN Done(frames, "normal", JSUndefined)
        ELSE
        Bind([ran \in {tree_block(cg, frames, s.body)} |->
            IF ran.signal = "break" THEN Done(ran.env, "normal", JSUndefined)
            ELSE IF ran.signal \notin {"normal", "continue"} THEN ran
            ELSE tree_loop(cg, ran.env, s, fuel - 1)])])

\* The case switch (d) enters: the first whose label is strictly equal to d,
\* else the default case (emitted last), else past the last case; 0 if
\* reading a label throws.
tree_case(cg, frames, d, cases, i) ==
    IF i > Len(cases) THEN i
    ELSE IF cases[i].label = <<>> THEN i
    ELSE Bind([label \in {read_identifier(cg, frames, cases[i].label[1])} |->
             IF label.t = "throw" THEN 0
             ELSE IF StrictEquals(d, label) THEN i
             ELSE tree_case(cg, frames, d, cases, i + 1)])

\* case i: { body } and, unless it leaves, the cases written after it.
tree_cases_from(cg, frames, cases, i) ==
    IF i > Len(cases) THEN Done(frames, "normal", JSUndefined)
    ELSE Bind([ran \in {tree_block(cg, frames, cases[i].body)} |->
             IF ran.signal # "normal" THEN ran
             ELSE tree_cases_from(cg, ran.env, cases, i + 1)])

\* The scope of the function body on entry: the parameters hold the argument,
\* the hoisted `let` names are undefined, the names the body declares itself
\* are uninitialized.
function_frame(cg, func, params, argument) ==
    [name \in cg.declared \cup params \cup Range(block_declarations(cg, func.body)) |->
        IF name \in params THEN argument
        ELSE IF name \in cg.declared THEN JSUndefined
        ELSE JSUninitialized]

\* The text of the parameter list.
parameter_names(cg, func) ==
    {identifier_name(cg, func.params[i]) : i \in 1..Len(func.params)}

\* fn(...params) on the emitted text.  A text that does not load prints
\* nothing.
run_compiled(func, argument) ==
    Bind([cg \in {CodeGenerator(func)} |->
    Bind([params \in {parameter_names(cg, func)} |->
        IF redeclares(cg, func.body, cg.declared \cup params)
        THEN Outcome("syntax", JSUndefined)
        ELSE Bind([ran \in {tree_exec_list(cg,
                                <<function_frame(cg, func, params, argument)>>,
                                func.body)} |->
                 Outcome(ran.signal, ran.value)])])])

(***************************************************************************)
(* lib.rs::compile as a state machine: one action per stage, then          *)
(* sprout.rs::verify_fixture on one input                                  *)
(***************************************************************************)
VARIABLES stage, program, hir, ssa, liveness, scopes, tree, code,
          input, original, compiled, merge_input, merge_output, dom, builder

vars == <<stage, program, hir, ssa, liveness, scopes, tree, code,
          input, original, compiled, merge_input, merge_output, dom, builder>>

pipeline == <<program, hir, ssa, liveness, scopes, tree, code, input, original, compiled>>

Init ==
    /\ stage = "source"
    /\ program \in Programs
    /\ hir = None
    /\ ssa = None
    /\ liveness = None
    /\ scopes = None
    /\ tree = None
    /\ code = None
    /\ input = None
    /\ original = None
    /\ compiled = None
    /\ merge_input = None
    /\ merge_output = None
    /\ dom = None
    /\ builder = None

\* LoweringContext::new().build(func); a panic unwinds out of compile.
Lower ==
    /\ stage = "source"
    /\ LET built == build(program)
       IN  IF built.ctx.panicked
           THEN stage' = "panicked" /\ hir' = hir
           ELSE stage' = "hir" /\ hir' = built.val
    /\ UNCHANGED <<program, ssa, liveness, scopes, tree, code, input, original, compiled,
                   merge_input, merge_output, dom, builder>>

EnterSsa ==
    /\ stage = "hir"
    /\ ssa' = enter_ssa(hir)
    /\ stage' = "ssa"
    /\ UNCHANGED <<program, hir, liveness, scopes, tree, code, input, original, compiled,
                   merge_input, merge_output, dom, builder>>

\* Each hash-based collection is iterated in the order of its own seed.
InferLiveness ==
    /\ stage = "ssa"
    /\ \E seed \in HashSeeds : liveness' = infer_liveness(ssa, seed)
    /\ stage' = "liveness"
    /\ UNCHANGED <<program, hir, ssa, scopes, tree, code, input, original, compiled,
                   merge_input, merge_output, dom, builder>>

ConstructReactiveScopes ==
    /\ stage = "liveness"
    /\ \E seed \in HashSeeds : scopes' = construct_reactive_scopes(ssa, liveness, seed)
    /\ stage' = "scopes"
    /\ UNCHANGED <<program, hir, ssa, liveness, tree, code, input, original, compiled,
                   merge_input, merge_output, dom, builder>>

BuildReactiveFunction ==
    /\ stage = "scopes"
    /\ tree' = build_reactive_function(ssa, scopes)
    /\ stage' = "tree"
    /\ UNCHANGED <<program, hir, ssa, liveness, scopes, code, input, original, compiled,
                   merge_input, merge_output, dom, builder>>

\* generate_code(&reactive_func, &scope_result)
GenerateCode ==
    /\ stage = "tree"
    /\ \E seed \in HashSeeds : code' = generate_function(tree, scopes, seed)
    /\ stage' = "code"
    /\ UNCHANGED <<program, hir, ssa, liveness, scopes, tree, input, original, compiled,
                   merge_input, merge_output, dom, builder>>

\* verify_fixture: the original and the emitted text, each run on the
\* entrypoint's argument.
VerifyFixture ==
    /\ stage = "code"
    /\ \E n \in 0..MaxInput :
          /\ input' = Some(n)
          /\ original' = run_original(program, n)
          /\ compiled' = run_compiled(tree, argument_of(program, n))
    /\ stage' = "verified"
    /\ UNCHANGED <<program, hir, ssa, liveness, scopes, tree, code, merge_input, merge_output,
                   dom, builder>>

Next ==
    \/ Lower
    \/ EnterSsa
    \/ InferLiveness
    \/ ConstructReactiveScopes
    \/ BuildReactiveFunction
    \/ GenerateCode
    \/ VerifyFixture

Spec == Init /\ [][Next]_vars

(***************************************************************************)
(* merge_scopes on its own: any list of at most MaxScopes scopes with      *)
(* non-empty ranges inside [0, MaxIndex)                                   *)
(***************************************************************************)
ScopeRanges == { <<lo, hi>> : lo \in 0..(MaxIndex - 1), hi \in 1..MaxIndex } \cap
               { r \in (0..MaxIndex) \X (0..MaxIndex) : r[1] < r[2] }

\* The list create_scope produces for the ranges: ids count up from 0.
ScopeList(ranges) ==
    [i \in 1..Len(ranges) |-> ReactiveScope(i - 1, ranges[i], <<>>, <<>>)]

InitMerge ==
    /\ stage = "merge"
    /\ \E n \in 0..MaxScopes : \E ranges \in [1..n -> ScopeRanges] :
            merge_input = ScopeList(ranges)
    /\ merge_output = None
    /\ program = None
    /\ hir = None
    /\ ssa = None
    /\ liveness = None
    /\ scopes = None
    /\ tree = None
    /\ code = None
    /\ input = None
    /\ original = None
    /\ compiled = None
    /\ dom = None
    /\ builder = None

MergeScopes ==
    /\ stage = "merge"
    /\ merge_output' = merge_scopes(merge_input)
    /\ stage' = "merged"
    /\ UNCHANGED <<pipeline, merge_input, dom, builder>>

NextMerge == MergeScopes

SpecMerge == InitMerge /\ [][NextMerge]_vars

(***************************************************************************)
(* enter_ssa on its own: any function of MaxBlocks blocks without          *)
(* instructions, each ending in Return, Goto or If, with predecessor lists *)
(* left over from before the call.  DominatorTree::compute is followed one *)
(* block of one pass at a time.                                            *)
(***************************************************************************)
MaxBlocks == 3

CfgBlockIds == 0..(MaxBlocks - 1)

CfgTerminals ==
    {Return(None)} \cup { Goto(t) : t \in CfgBlockIds }
        \cup { If(Identifier(InputName, 0), t, e) : t \in CfgBlockIds, e \in CfgBlockIds }

\* Predecessor lists as a caller may have left them.
StalePreds == { <<>>, <<1>>, <<0, 0>> }

CfgFunction(terminals, stale) ==
    HIRFunction(<<"f">>, <<Identifier(InputName, 0)>>, 0,
                [b \in CfgBlockIds |-> BasicBlock(b, <<>>, terminals[b], stale)], {})

InitCfg ==
    /\ stage = "cfg"
    /\ \E terminals \in [CfgBlockIds -> CfgTerminals] : \E stale \in StalePreds :
            hir = CfgFunction(terminals, stale)
    /\ dom = None
    /\ builder = None
    /\ program = None
    /\ ssa = None
    /\ liveness = None
    /\ scopes = None
    /\ tree = None
    /\ code = None
    /\ input = None
    /\ original = None
    /\ compiled = None
    /\ merge_input = None
    /\ merge_output = None

\* DominatorTree::compute at the head of its first pass, on the function as
\* step 0 of enter_ssa hands it over: rpo, rpo_indices, idoms = {entry: entry}.
dominators_start(func) ==
    Pick({ Pick({ [blocks |-> blocks, rpo |-> rpo, rpo_indices |-> rpo_indices_of(rpo),
                   idoms |-> (func.entry_block :> func.entry_block),
                   changed |-> FALSE, pos |-> 1] :
                  rpo \in {reverse_post_order(func.entry_block, blocks)} }) :
           blocks \in {compute_predecessors(func.blocks)} })

StartDominators ==
    /\ stage = "cfg"
    /\ dom' = dominators_start(hir)
    /\ stage' = "idoms"
    /\ UNCHANGED <<pipeline, merge_input, merge_output, builder>>

\* The body of `for &b in &rpo` for the block at pos.
IdomStep ==
    /\ stage = "idoms"
    /\ dom.pos <= Len(dom.rpo)
    /\ dom' = Pick({ [dom EXCEPT !.idoms = st.idoms, !.changed = st.changed, !.pos = @ + 1] :
                     st \in {idom_pass(<<dom.rpo[dom.pos]>>, hir.entry_block, dom.blocks,
                                       dom.rpo_indices,
                                       [idoms |-> dom.idoms, changed |-> dom.changed])} })
    /\ UNCHANGED <<stage, pipeline, merge_input, merge_output, builder>>

\* The end of a pass: `while changed` starts another pass or is left.
IdomPassEnd ==
    /\ stage = "idoms"
    /\ dom.pos > Len(dom.rpo)
    /\ IF dom.changed
       THEN dom' = [dom EXCEPT !.changed = FALSE, !.pos = 1] /\ stage' = stage
       ELSE dom' = dom /\ stage' = "dominators"
    /\ UNCHANGED <<pipeline, merge_input, merge_output, builder>>

\* DominatorTree::compute after the loop: the dominance frontiers.
DominanceFrontiers ==
    /\ stage = "dominators"
    /\ dom' = [blocks |-> dom.blocks, idoms |-> dom.idoms,
               dominance_frontiers |->
                   frontier_blocks([b \in DOMAIN dom.blocks |-> {}],
                                   SortedBlocks(DOMAIN dom.blocks), dom.blocks, dom.idoms)]
    /\ stage' = "frontiers"
    /\ UNCHANGED <<pipeline, merge_input, merge_output, builder>>

\* The rest of enter_ssa.
EnterSsaCfg ==
    /\ stage = "frontiers"
    /\ ssa' = enter_ssa(hir)
    /\ stage' = "ssa"
    /\ UNCHANGED <<program, hir, liveness, scopes, tree, code, input, original, compiled,
                   merge_input, merge_output, dom, builder>>

NextCfg ==
    \/ StartDominators
    \/ IdomStep
    \/ IdomPassEnd
    \/ DominanceFrontiers
    \/ EnterSsaCfg

SpecCfg == InitCfg /\ [][NextCfg]_vars

\* DominatorTree::compute alone, up to the end of its fixed-point loop.
NextDominators ==
    \/ StartDominators
    \/ IdomStep
    \/ IdomPassEnd

\* The computation is not suspended forever while a step of it can be taken.
SpecCfgLive == InitCfg /\ [][NextDominators]_vars /\ WF_vars(NextDominators)

(***************************************************************************)
(* enter_ssa on control-flow graphs whose blocks store to local variables. *)
(* As in every function the lowering builds, no edge leads to the entry    *)
(* block.                                                                  *)
(***************************************************************************)
StoreNames == { <<"r">>, <<"s">> }

\* Terminals that do not jump to the entry block.
StoreTerminals ==
    {Return(None)} \cup { Goto(t) : t \in CfgBlockIds \ {0} }
        \cup { If(Identifier(InputName, 0), t, e) : t \in CfgBlockIds \ {0},
                                                     e \in CfgBlockIds \ {0} }

\* `name = x` as lower_assignment_expression leaves it: the load of x into a
\* temporary, then the StoreLocal.  The i-th statement of block b has the
\* instruction ids 4b + 2i - 2 and 4b + 2i - 1.
store_statement(b, i, name) ==
    <<Instruction(4 * b + 2 * i - 2, Identifier(<<"t">> \o Digits(4 * b + 2 * i - 2), 4 * b + 2 * i - 2),
                  LoadLocal(Identifier(InputName, 0))),
      Instruction(4 * b + 2 * i - 1, Identifier(<<"t">> \o Digits(4 * b + 2 * i - 1), 4 * b + 2 * i - 1),
                  StoreLocal(Identifier(name, 0),
                             Identifier(<<"t">> \o Digits(4 * b + 2 * i - 2), 4 * b + 2 * i - 2)))>>

\* The assignments of one block: none, one, or one to each name.
StoreChoices == { <<>>, <<<<"r">>>>, <<<<"s">>>>, <<<<"r">>, <<"s">>>>, <<<<"r">>, <<"r">>>> }

store_instructions(b, names) ==
    SeqSum([i \in 1..Len(names) |-> store_statement(b, i, names[i])])

StoreFunction(terminals, stores) ==
    HIRFunction(<<"f">>, <<Identifier(InputName, 0)>>, 0,
                [b \in CfgBlockIds |->
                    BasicBlock(b, store_instructions(b, stores[b]), terminals[b], <<>>)],
                {})

InitStores ==
    /\ stage = "stores"
    /\ \E terminals \in [CfgBlockIds -> StoreTerminals] :
       \E stores \in [CfgBlockIds -> StoreChoices] :
            hir = StoreFunction(terminals, stores)
    /\ dom = None
    /\ builder = None
    /\ program = None
    /\ ssa = None
    /\ liveness = None
    /\ scopes = None
    /\ tree = None
    /\ code = None
    /\ input = None
    /\ original = None
    /\ compiled = None
    /\ merge_input = None
    /\ merge_output = None

EnterSsaStores ==
    /\ stage = "stores"
    /\ ssa' = enter_ssa(hir)
    /\ stage' = "ssa"
    /\ UNCHANGED <<program, hir, liveness, scopes, tree, code, input, original, compiled,
                   merge_input, merge_output, dom, builder>>

SpecStores == InitStores /\ [][EnterSsaStores]_vars

(***************************************************************************)
(* lower_switch_statement on its own: function f(x) { let r = 0;           *)
(* switch (x) { <cases> } return r; } with at most MaxCases cases, at most *)
(* one of them `default`, lowered by LoweringContext::build.               *)
(***************************************************************************)
MaxCases == 3

\* The consequents of a case, r being the local.
CaseBodies ==
    LET r == Id(<<"r">>)
    IN  { <<>>,
          \* r += 1;
          <<ExprStmt(Assign("+=", r, Num(1)))>>,
          \* r += 1; break;
          <<ExprStmt(Assign("+=", r, Num(1))), BreakStmt>>,
          \* return r;
          <<ReturnStmt(Some(r))>>,
          \* if (x < 2) { r = 1; }
          <<IfStmt(Bin("<", X, Num(2)), Block(<<ExprStmt(Assign("=", r, Num(1)))>>), None)>>,
          \* if (x < 2) { break; } r += 1;
          <<IfStmt(Bin("<", X, Num(2)), Block(<<BreakStmt>>), None),
            ExprStmt(Assign("+=", r, Num(1)))>>,
          \* while (r < x) { r += 1; }
          <<WhileStmt(Bin("<", r, X), Block(<<ExprStmt(Assign("+=", r, Num(1)))>>))>>,
          \* break; r += 1;
          <<BreakStmt, ExprStmt(Assign("+=", r, Num(1)))>> }

\* The case lists of n cases: case i tests `i`, or is the default when
\* i = default_at (0: no default case).
CaseLists(n) ==
    { [i \in 1..n |-> Case(IF i = default_at THEN None ELSE Some(Num(i)), bodies[i])] :
        default_at \in 0..n, bodies \in [1..n -> CaseBodies] }

SwitchPrograms ==
    { Function(<<"f">>, ParamsOf("identifier"),
               <<Let(<<"r">>, Num(0)), SwitchStmt(X, cases), ReturnStmt(Some(Id(<<"r">>)))>>) :
        cases \in UNION { CaseLists(n) : n \in 0..MaxCases } }

InitSwitch ==
    /\ stage = "source"
    /\ program \in SwitchPrograms
    /\ hir = None
    /\ ssa = None
    /\ liveness = None
    /\ scopes = None
    /\ tree = None
    /\ code = None
    /\ input = None
    /\ original = None
    /\ compiled = None
    /\ merge_input = None
    /\ merge_output = None
    /\ dom = None
    /\ builder = None

SpecSwitch == InitSwitch /\ [][Lower]_vars

(***************************************************************************)
(* The pipeline on functions whose local has a name at the edge of the     *)
(* temporary pattern t<digits>: t, t2, tx, and r.                          *)
(***************************************************************************)
TempNames == { <<"t">>, <<"t", "2">>, <<"t", "x">>, <<"r">> }

TempPrograms == UNION { ProgramsOf("identifier", v) : v \in TempNames }

InitTemps ==
    /\ stage = "source"
    /\ program \in TempPrograms
    /\ hir = None
    /\ ssa = None
    /\ liveness = None
    /\ scopes = None
    /\ tree = None
    /\ code = None
    /\ input = None
    /\ original = None
    /\ compiled = None
    /\ merge_input = None
    /\ merge_output = None
    /\ dom = None
    /\ builder = None

SpecTemps == InitTemps /\ [][Next]_vars

(***************************************************************************)
(* generate_code on a function whose body is a list of at most MaxRegions  *)
(* Scope statements, with the scope list the statements were made from.    *)
(***************************************************************************)
MaxRegions == 2

\* Scope i with the first D of the dependencies x, b, the first K of its own
\* declarations, and a body that is empty or defines the first declaration.
ScopeShapes == { <<D, K, B>> : D \in 0..2, K \in 0..2, B \in 0..1 }

scope_dependencies(shape) == SubSeq(<<Identifier(InputName, 0), Identifier(OtherName, 0)>>,
                                    1, shape[1])

scope_declarations(i, shape) ==
    SubSeq(<<Identifier(<<"r">>, 2 * i - 1), Identifier(<<"r">>, 2 * i)>>, 1, shape[2])

scope_body(i, shape) ==
    IF shape[3] = 1
    THEN <<RInstruction(Identifier(<<"r">>, 2 * i - 1), Constant("Float", i))>>
    ELSE <<>>

ScopeStatements(shapes) ==
    [i \in 1..Len(shapes) |->
        RScope(i - 1, scope_dependencies(shapes[i]), scope_declarations(i, shapes[i]),
               scope_body(i, shapes[i]))]

ScopeResult(shapes) ==
    LET list == [i \in 1..Len(shapes) |->
                    ReactiveScope(i - 1, <<i - 1, i>>, scope_dependencies(shapes[i]),
                                  scope_declarations(i, shapes[i]))]
    IN  [scopes |-> list, instruction_scopes |-> instruction_scopes_of(list)]

InitScopes ==
    /\ stage = "tree"
    /\ \E n \in 0..MaxRegions : \E shapes \in [1..n -> ScopeShapes] :
          /\ tree = ReactiveFunction(<<"f">>,
                                     <<Identifier(InputName, 0), Identifier(OtherName, 0)>>,
                                     ScopeStatements(shapes))
          /\ scopes = ScopeResult(shapes)
    /\ program = None
    /\ hir = None
    /\ ssa = None
    /\ liveness = None
    /\ code = None
    /\ input = None
    /\ original = None
    /\ compiled = None
    /\ merge_input = None
    /\ merge_output = None
    /\ dom = None
    /\ builder = None

SpecScopes == InitScopes /\ [][GenerateCode]_vars

(***************************************************************************)
(* TreeBuilder::build step by step, on any CFG of MaxBlocks blocks with    *)
(* Return, Goto, If and Switch terminals and any set of loop headers: the  *)
(* builder's visited_blocks, current_loops and loop_stack, and the stack   *)
(* of build_block calls in progress (innermost last).                      *)
(*   pc of a call: "call" (not started), "return" (done, statements is the *)
(*   value returned), else the recursive call it waits for.                *)
(***************************************************************************)
TreeFrame(block_id, prev_id, depth) ==
    [block_id |-> block_id, prev_id |-> prev_id, pc |-> "call", depth |-> depth,
     statements |-> <<>>, loop_body |-> <<>>, then_stmts |-> <<>>, cases |-> <<>>,
     index |-> 0]

\* TreeBuilder::new
TreeBuilder_new ==
    [visited_blocks |-> {}, current_loops |-> {}, loop_stack |-> <<>>, frames |-> <<>>]

top_frame(b) == b.frames[Len(b.frames)]

set_top(b, frame) == [b EXCEPT !.frames[Len(b.frames)] = frame]

\* self.build_block(block_id, prev_id): the call is entered with the
\* loop_stack as the caller left it.
call_build_block(b, block_id, prev_id) ==
    [b EXCEPT !.frames = Append(@, TreeFrame(block_id, prev_id, Len(b.loop_stack)))]

\* `return statements` of the call in progress.
return_statements(b, statements) ==
    set_top(b, [top_frame(b) EXCEPT !.pc = "return", !.statements = statements])

\* self.visited_blocks.insert(block_id)
visit_block(b) == [b EXCEPT !.visited_blocks = @ \cup {top_frame(b).block_id}]

\* leave_block without the remove: the block stays in visited_blocks.
leave_block_visited(b, statements) == return_statements(b, statements)

\* self.visited_blocks.remove(&block_id); statements
leave_block(b, statements) ==
    return_statements([b EXCEPT !.visited_blocks = @ \ {top_frame(b).block_id}], statements)

\* self.loop_stack.pop()
pop_loop(b) == [b EXCEPT !.loop_stack = IF @ = <<>> THEN @ ELSE Front(@)]

\* build_block, the loop-header arm up to the call for the body.
enter_loop_header(func, b, phis) ==
    IF func.blocks[top_frame(b).block_id].terminal.kind = "If"
    THEN call_build_block(
             set_top([b EXCEPT !.visited_blocks = @ \cup {top_frame(b).block_id},
                               !.current_loops = @ \cup {top_frame(b).block_id},
                               !.loop_stack =
                                   Append(@, TreeLoopInfo(top_frame(b).block_id,
                                       func.blocks[top_frame(b).block_id].terminal.targets[2]))],
                     [top_frame(b) EXCEPT
                         !.pc = "loop_body",
                         !.statements = phis,
                         !.loop_body =
                             converted_instructions(func.blocks[top_frame(b).block_id])
                             \o <<RIf(func.blocks[top_frame(b).block_id].terminal.value[1],
                                      <<>>, <<RBreak>>)>>]),
             func.blocks[top_frame(b).block_id].terminal.targets[1],
             Some(top_frame(b).block_id))
    ELSE leave_block(b, phis)

\* build_block, a block that is not a loop header, up to its first call.
enter_normal(func, b, block_id, term, body) ==
    CASE term.kind = "Return" -> leave_block(b, Append(body, RReturn(term.value)))
      [] term.kind = "Goto" ->
            IF goto_exit(b.loop_stack, term.targets[1]) = "break"
            THEN leave_block(b, body \o emit_phi_assignments(func, term.targets[1], block_id)
                                 \o <<RBreak>>)
            ELSE IF goto_exit(b.loop_stack, term.targets[1]) = "continue"
            THEN leave_block(b, body \o emit_phi_assignments(func, term.targets[1], block_id)
                                 \o <<RContinue>>)
            ELSE call_build_block(
                     set_top(visit_block(b),
                             [top_frame(b) EXCEPT !.pc = "goto", !.statements = body]),
                     term.targets[1], Some(block_id))
      [] term.kind = "If" ->
            call_build_block(
                set_top(visit_block(b),
                        [top_frame(b) EXCEPT !.pc = "then", !.statements = body]),
                term.targets[1], Some(block_id))
      [] term.kind = "Switch" ->
            call_build_block(
                set_top([visit_block(b) EXCEPT
                            !.loop_stack = IF term.merge_target # None
                                           THEN Append(@, TreeLoopInfo(block_id,
                                                                       term.merge_target[1]))
                                           ELSE @],
                        [top_frame(b) EXCEPT
                            !.pc = IF term.targets # <<>> THEN "case" ELSE "default",
                            !.index = 1, !.statements = body]),
                IF term.targets # <<>> THEN term.targets[1] ELSE term.default[1],
                Some(block_id))

\* build_block from its entry to its first recursive call or its return.
build_block_enter(func, b) ==
    Pick({ IF top_frame(b).block_id \in b.visited_blocks THEN return_statements(b, phis)
           ELSE IF top_frame(b).block_id \notin DOMAIN func.blocks THEN leave_block(b, phis)
           ELSE IF top_frame(b).block_id \in func.loop_headers
           THEN enter_loop_header(func, b, phis)
           ELSE enter_normal(func, b, top_frame(b).block_id,
                             func.blocks[top_frame(b).block_id].terminal,
                             phis \o converted_instructions(func.blocks[top_frame(b).block_id])) :
           phis \in { IF top_frame(b).prev_id = None THEN <<>>
                      ELSE emit_phi_assignments(func, top_frame(b).block_id,
                                                top_frame(b).prev_id[1]) } })

\* build_block resumed after the recursive call it waited for returned
\* `returned`: b is the builder with that call popped, term the terminal of
\* the block of the call resumed.
resume_block(b, term, returned) ==
    CASE top_frame(b).pc = "loop_body" ->
            call_build_block(
                set_top([pop_loop(b) EXCEPT !.current_loops = @ \ {top_frame(b).block_id}],
                        [top_frame(b) EXCEPT
                            !.pc = "loop_exit",
                            !.loop_body = @ \o returned,
                            !.statements =
                                Append(@, RWhile(Identifier(<<"t", "r", "u", "e">>, 0),
                                                 top_frame(b).loop_body \o returned))]),
                term.targets[2], Some(top_frame(b).block_id))
      [] top_frame(b).pc \in {"loop_exit", "goto"} ->
            leave_block(b, top_frame(b).statements \o returned)
      [] top_frame(b).pc = "then" ->
            call_build_block(
                set_top(b, [top_frame(b) EXCEPT !.pc = "else", !.then_stmts = returned]),
                term.targets[2], Some(top_frame(b).block_id))
      [] top_frame(b).pc = "else" ->
            leave_block(b, Append(top_frame(b).statements,
                                  RIf(term.value[1], top_frame(b).then_stmts, returned)))
      [] top_frame(b).pc = "case" ->
            call_build_block(
                set_top(b, [top_frame(b) EXCEPT
                               !.pc = IF top_frame(b).index < Len(term.targets)
                                      THEN "case" ELSE "default",
                               !.index = @ + 1,
                               !.cases = Append(@, ReactiveSwitchCase(
                                                       Some(term.labels[top_frame(b).index]),
                                                       returned))]),
                IF top_frame(b).index < Len(term.targets)
                THEN term.targets[top_frame(b).index + 1] ELSE term.default[1],
                Some(top_frame(b).block_id))
      [] top_frame(b).pc = "default" ->
            leave_block(IF term.merge_target # None THEN pop_loop(b) ELSE b,
                        Append(top_frame(b).statements,
                               RSwitch(term.value[1],
                                       Append(top_frame(b).cases,
                                              ReactiveSwitchCase(None, returned)))))

\* The innermost call returns to the call below it.
build_block_return(func, b) ==
    Pick({ resume_block(popped, func.blocks[top_frame(popped).block_id].terminal,
                        top_frame(b).statements) :
           popped \in { [b EXCEPT !.frames = Front(@)] } })

\* A switch as lowering leaves it when there is no default case: one tested
\* case, default and merge-target both the exit block.
TreeSwitches ==
    { Switch(Identifier(InputName, 0), <<Identifier(OtherName, 0)>>, <<t>>, m, Some(m)) :
        t \in CfgBlockIds, m \in CfgBlockIds }

TreeTerminals == CfgTerminals \cup TreeSwitches

TreeFunction(terminals, headers) ==
    HIRFunction(<<"f">>, <<Identifier(InputName, 0)>>, 0,
                [b \in CfgBlockIds |-> BasicBlock(b, <<>>, terminals[b], <<>>)], headers)

InitTree ==
    /\ stage = "scopes"
    /\ \E terminals \in [CfgBlockIds -> TreeTerminals] : \E headers \in SUBSET CfgBlockIds :
            ssa = TreeFunction(terminals, headers)
    /\ scopes = [scopes |-> <<>>, instruction_scopes |-> EmptyMap]
    /\ builder = None
    /\ dom = None
    /\ program = None
    /\ hir = None
    /\ liveness = None
    /\ tree = None
    /\ code = None
    /\ input = None
    /\ original = None
    /\ compiled = None
    /\ merge_input = None
    /\ merge_output = None

\* TreeBuilder::new(hir, scope_result) and the call build_block(entry_block, None).
StartBuild ==
    /\ stage = "scopes"
    /\ builder' = call_build_block(TreeBuilder_new, ssa.entry_block, None)
    /\ stage' = "building"
    /\ UNCHANGED <<program, hir, ssa, liveness, scopes, tree, code, input, original, compiled,
                   merge_input, merge_output, dom>>

BuildBlockEnter ==
    /\ stage = "building"
    /\ top_frame(builder).pc = "call"
    /\ builder' = build_block_enter(ssa, builder)
    /\ UNCHANGED <<stage, program, hir, ssa, liveness, scopes, tree, code, input, original,
                   compiled, merge_input, merge_output, dom>>

BuildBlockReturn ==
    /\ stage = "building"
    /\ Len(builder.frames) >= 2
    /\ top_frame(builder).pc = "return"
    /\ builder' = build_block_return(ssa, builder)
    /\ UNCHANGED <<stage, program, hir, ssa, liveness, scopes, tree, code, input, original,
                   compiled, merge_input, merge_output, dom>>

\* build: the call for the entry block returned the body.
BuildDone ==
    /\ stage = "building"
    /\ Len(builder.frames) = 1
    /\ top_frame(builder).pc = "return"
    /\ tree' = ReactiveFunction(ssa.name, ssa.params, top_frame(builder).statements)
    /\ builder' = [builder EXCEPT !.frames = <<>>]
    /\ stage' = "tree"
    /\ UNCHANGED <<program, hir, ssa, liveness, scopes, code, input, original, compiled,
                   merge_input, merge_output, dom>>

NextTree ==
    \/ StartBuild
    \/ BuildBlockEnter
    \/ BuildBlockReturn
    \/ BuildDone

\* A call of build in progress is not suspended forever.
SpecTree == InitTree /\ [][NextTree]_vars /\ WF_vars(NextTree)

(***************************************************************************)
(* Properties                                                              *)
(***************************************************************************)
\* The function of scenario 2, with the names of the catalogue:
\*   function f(x) { let r = 0;
\*     switch (x) { case 1: r += 1; case 2: r += 2; break; case 3: r += 4; }
\*     return r; }
SwitchProgram ==
    Function(<<"f">>, ParamsOf("identifier"),
             <<Let(<<"r">>, Num(0))>> \o SwitchFragment(<<"r">>)
                 \o <<ReturnStmt(Some(Id(<<"r">>)))>>)

\* function f({x, b}) { let r = 0; r = x + b; return r; }
PatternProgram ==
    Function(<<"f">>, ParamsOf("pattern"),
             <<Let(<<"r">>, Num(0)),
               ExprStmt(Assign("=", Id(<<"r">>), Bin("+", X, Id(OtherName)))),
               ReturnStmt(Some(Id(<<"r">>)))>>)

\* C1 (semantic preservation): for every function with a plain parameter
\* built from if/else, while, for, break, continue, switch and local
\* assignments, and every input, running the emitted text of the
\* reconstructed tree prints what running the original text prints (the same
\* returned value).
C1_SemanticPreservation ==
    (stage = "verified" /\ program.params[1].k = "Identifier") =>
        runner_output(compiled) = runner_output(original)

RECURSIVE StatementsOf(_)
\* Every statement of a tree, nested ones included.
StatementsOf(stmts) ==
    SeqSum([i \in 1..Len(stmts) |->
               <<stmts[i]>> \o StatementsOf(stmts[i].body)
                   \o StatementsOf(stmts[i].alternate)
                   \o SeqSum([c \in 1..Len(stmts[i].cases) |->
                                 StatementsOf(stmts[i].cases[c].body)])])

\* C2 (scopes are materialized): the tree build_reactive_function returns
\* holds one Scope statement for each scope of ReactiveScopeResult.scopes.
C2_ScopesMaterialized ==
    tree # None =>
        Len(SelectSeq(StatementsOf(tree.body), LAMBDA stmt : stmt.kind = "Scope"))
            = Len(scopes.scopes)

\* The places of the instructions of a function: <<block, index>>.
InstructionSites(func) ==
    UNION { { <<b, i>> : i \in 1..Len(func.blocks[b].instructions) } :
              b \in DOMAIN func.blocks }

InstructionAt(func, site) == func.blocks[site[1]].instructions[site[2]]

\* The places where an instruction of the function defines the identifier.
DefinitionSites(func, id) ==
    { site \in InstructionSites(func) : InstructionAt(func, site).lvalue = id }

\* C3 (SSA single definition): in the output of enter_ssa, whatever the user
\* variables are called (the local is called r or t2), no two instructions
\* have the same lvalue Identifier (name, version) with version >= 1.
C3_SingleDefinition ==
    ssa # None =>
        \A site \in InstructionSites(ssa) :
            InstructionAt(ssa, site).lvalue.id >= 1 =>
                DefinitionSites(ssa, InstructionAt(ssa, site).lvalue) = {site}

RECURSIVE ReachableAvoiding(_, _, _)
\* The blocks some path from the blocks of `seen` reaches without entering
\* the block `avoid`.
ReachableAvoiding(func, seen, avoid) ==
    IF \E b \in seen : \E s \in Range(successors(func.blocks[b])) :
          s \in DOMAIN func.blocks /\ s # avoid /\ s \notin seen
    THEN ReachableAvoiding(func,
             seen \cup UNION { { s \in Range(successors(func.blocks[b])) :
                                   s \in DOMAIN func.blocks /\ s # avoid } : b \in seen },
             avoid)
    ELSE seen

\* Every path from the entry block to block b passes through block d.
Dominates(func, d, b) ==
    \/ d = b
    \/ d = func.entry_block
    \/ b \notin ReachableAvoiding(func, {func.entry_block}, d)

Reachable(func) == ReachableAvoiding(func, {func.entry_block}, func.entry_block)

\* A definition at `def` dominates a use in instruction `use` (a use by the
\* terminal of block b is the use <<b, Len(instructions) + 1>>).
SiteDominates(func, def, use) ==
    IF def[1] = use[1] THEN def[2] < use[2] ELSE Dominates(func, def[1], use[1])

\* The identifiers the terminal of a block reads.
TerminalOperands(terminal) == Range(terminal.value) \cup Range(terminal.labels)

DefiningIndices(func, id) ==
    { idx \in 0..(Len(linearize_instructions(func)) - 1) :
        linearize_instructions(func)[idx + 1].lvalue = id }

\* The schedule indices of the instructions that have the identifier as operand.
UsingIndices(func, id) ==
    { idx \in 0..(Len(linearize_instructions(func)) - 1) :
        id \in Range(get_operand_identifiers(linearize_instructions(func)[idx + 1].value)) }

InRange(idx, range) == range[1] <= idx /\ idx < range[2]

\* C6 (dependency/declaration separation): for every scope returned by
\* construct_reactive_scopes, no (name, version) pair is both in the scope's
\* dependencies and in its declarations.
C6_Separation ==
    scopes # None =>
        \A i \in 1..Len(scopes.scopes) :
            Range(scopes.scopes[i].dependencies)
                \cap Range(scopes.scopes[i].declarations) = {}

\* C7: for every scope with range [s, e), an Identifier is in the
\* dependencies only if it is an operand of an instruction at a schedule
\* index in [s, e) and it has a defining instruction, whose index is strictly
\* less than s; an Identifier is in the declarations only if a defining
\* instruction of it has its index in [s, e).
C7_DependencyDefinedBefore ==
    scopes # None =>
        \A i \in 1..Len(scopes.scopes) :
            /\ \A dep \in Range(scopes.scopes[i].dependencies) :
                  /\ \E idx \in UsingIndices(ssa, dep) : InRange(idx, scopes.scopes[i].range)
                  /\ DefiningIndices(ssa, dep) # {}
                  /\ \A idx \in DefiningIndices(ssa, dep) : idx < scopes.scopes[i].range[1]
            /\ \A decl \in Range(scopes.scopes[i].declarations) :
                  \E idx \in DefiningIndices(ssa, decl) : InRange(idx, scopes.scopes[i].range)

\* C8 (lowering never aborts): LoweringContext::build completes for every
\* function, including a compound assignment to a member expression or a
\* destructuring pattern and the operators **= and ??=.
C8_LoweringCompletes == stage # "panicked"

\* g(x) of scenario 2.
SwitchExpected(n) ==
    CASE n = 1 -> 3
      [] n = 2 -> 2
      [] n = 3 -> 4
      [] OTHER -> 0

\* C9 (statements after a switch are reached): for the function of scenario
\* 2 the tree continues after the Switch statement (the Switch is not the
\* last statement of the body) and the emitted text yields g(1) = 3,
\* g(2) = 2, g(3) = 4, g(4) = 0.
C9_SwitchContinues ==
    (stage = "verified" /\ program = SwitchProgram) =>
        /\ tree.body[Len(tree.body)].kind # "Switch"
        /\ runner_output(compiled) = json_result(JSNumber(SwitchExpected(input[1])))

\* The instructions of the entry block of kind `kind` that store to / load
\* the property `name`.
EntryStores(func, name) ==
    { i \in 1..Len(func.blocks[func.entry_block].instructions) :
        /\ func.blocks[func.entry_block].instructions[i].value.kind = "StoreLocal"
        /\ func.blocks[func.entry_block].instructions[i].value.args[1].name = name }

EntryPropertyLoads(func, name) ==
    { i \in 1..Len(func.blocks[func.entry_block].instructions) :
        /\ func.blocks[func.entry_block].instructions[i].value.kind = "PropertyLoad"
        /\ func.blocks[func.entry_block].instructions[i].value.property = name }

\* C10 (destructuring parameters bind their names): for f({x, b}) the entry
\* block of the lowered function holds a property load and a StoreLocal for
\* x and for b, every read of x or b in the SSA form has a non-zero version,
\* and f({x: 1, b: 2}) returns 3.
C10_PatternParameterBound ==
    program = PatternProgram =>
        /\ hir # None =>
              \A name \in {InputName, OtherName} :
                  EntryPropertyLoads(hir, name) # {} /\ EntryStores(hir, name) # {}
        /\ ssa # None =>
              \A site \in InstructionSites(ssa) :
                  (/\ InstructionAt(ssa, site).value.kind = "LoadLocal"
                   /\ InstructionAt(ssa, site).value.args[1].name \in {InputName, OtherName})
                      => InstructionAt(ssa, site).value.args[1].id # 0
        /\ (stage = "verified" /\ input = Some(1)) =>
              runner_output(compiled) = json_result(JSNumber(3))

\* The identifiers generate_function hoists: the canonical name is in the
\* `let` list at the function top.
hoisted_identifiers(func) ==
    { id \in collect_declarations(func.body) :
        get_canonical_name(id) \in CodeGenerator(func).declared }

\* The Instruction statements generate_instruction writes with `let`.
let_instructions(func) ==
    SelectSeq(StatementsOf(func.body),
              LAMBDA stmt : stmt.kind = "Instruction"
                            /\ generate_instruction(CodeGenerator(func), stmt) = "let")

\* C11 (single hoisted declaration): in the text emitted for a function,
\* `let` occurs only in the hoisted declaration at the function top, so
\* every later write to a non-temporary identifier is a bare assignment, and
\* no parameter, in any SSA version, is in the hoisted list or declared again.
C11_SingleHoistedDeclaration ==
    tree # None =>
        /\ let_instructions(tree) = <<>>
        /\ \A id \in hoisted_identifiers(tree) : id.name \notin CodeGenerator(tree).params

\* C12 (determinism): for a fixed input function the liveness ranges, the
\* scopes (ids, ranges, dependencies, declarations) and the emitted text are
\* the same for every iteration order of the hash-based collections: what a
\* run computed under its own orders is what every other order computes.
C12_Determinism ==
    \A seed \in HashSeeds :
        /\ liveness # None => liveness = infer_liveness(ssa, seed)
        /\ scopes # None => scopes = construct_reactive_scopes(ssa, liveness, seed)
        /\ code # None => code = generate_function(tree, scopes, seed)

\* Text was emitted for a function with several hoisted names, a scope, and
\* two identifiers of one alias class sharing a merged range.
C12_Witness ==
    /\ code # None
    /\ \E i \in 1..Len(code.prologue) :
          code.prologue[i].kind = "let" /\ Len(code.prologue[i].names) >= 2
    /\ scopes.scopes # <<>>
    /\ \E a, b \in DOMAIN liveness.ranges :
          /\ a # b
          /\ liveness.ranges[a] = liveness.ranges[b]
          /\ liveness.ranges[a][2] - liveness.ranges[a][1] > 1

\* The function DominatorTree::compute works on: the predecessor lists are
\* the ones step 0 of enter_ssa rebuilt.
DominatedFunction == [hir EXCEPT !.blocks = dom.blocks]

\* The blocks other than b that every path from the entry to b passes through.
StrictDominators(func, b) ==
    { d \in Reachable(func) : d # b /\ Dominates(func, d, b) }

\* d is the strict dominator of b that every other strict dominator of b dominates.
IsImmediateDominator(func, d, b) ==
    /\ d \in StrictDominators(func, b)
    /\ \A e \in StrictDominators(func, b) : Dominates(func, e, d)

\* C13 (immediate dominators are exact): after DominatorTree::compute on a
\* CFG whose predecessor lists match its successor edges, the keys of idoms
\* are exactly the blocks reachable from the entry, idoms[entry] = entry, and
\* for every other reachable block b, idoms[b] is the immediate dominator
\* of b.  The stepwise computation and DominatorTree_compute agree.
C13_ImmediateDominatorsExact ==
    stage = "dominators" =>
        /\ DOMAIN dom.idoms = Reachable(DominatedFunction)
        /\ dom.idoms[hir.entry_block] = hir.entry_block
        /\ \A b \in Reachable(DominatedFunction) \ {hir.entry_block} :
              IsImmediateDominator(DominatedFunction, dom.idoms[b], b)
        /\ DominatorTree_compute(DominatedFunction).idoms = dom.idoms

\* The computation has ended on a CFG with a block whose immediate dominator
\* is none of its predecessors and with an unreachable block that has an
\* edge into a reachable one.
C13_Witness ==
    /\ stage = "dominators"
    /\ \E b \in DOMAIN dom.idoms : dom.idoms[b] \notin Range(dom.blocks[b].preds)
    /\ \E u \in DOMAIN dom.blocks : \E b \in DOMAIN dom.idoms :
          u \notin DOMAIN dom.idoms /\ u \in Range(dom.blocks[b].preds)

\* Every recorded immediate dominator is earlier in reverse post order than
\* its block: each climb of intersect lowers the index of the block it moves.
IdomsDescend ==
    \A b \in DOMAIN dom.idoms \ {hir.entry_block} :
        dom.rpo_indices[dom.idoms[b]] < dom.rpo_indices[b]

\* C14 (the dominator computation terminates): on every finite CFG the
\* `while changed` loop reaches a pass without a change, and every intersect
\* call inside it terminates: whenever intersect is called, the idoms chains
\* it climbs descend in reverse post order.
C14_DominatorsTerminate ==
    /\ [](stage = "idoms" => IdomsDescend)
    /\ <>(stage = "dominators")

\* The computation has ended on an irreducible CFG with a self-loop: the
\* cycle 1 <-> 2 is entered at both blocks, and block 1 is its own successor.
C14_Witness ==
    /\ stage = "dominators"
    /\ hir.blocks[0].terminal.targets = <<1, 2>>
    /\ hir.blocks[1].terminal.targets = <<1, 2>>
    /\ hir.blocks[2].terminal.targets = <<1>>

\* The number of occurrences of x in a list.
Occurrences(list, x) == Cardinality({ i \in 1..Len(list) : list[i] = x })

\* C15 (predecessor / successor consistency): after enter_ssa, for all blocks
\* b and s of the block map, b occurs in preds(s) as often as s occurs in
\* successors(b), whatever the predecessor lists were before the call.
C15_PredecessorsMatchSuccessors ==
    (stage = "ssa" /\ ssa # None) =>
        \A b \in DOMAIN ssa.blocks : \A s \in DOMAIN ssa.blocks :
            Occurrences(ssa.blocks[s].preds, b) = Occurrences(successors(ssa.blocks[b]), s)

\* enter_ssa has run on a function whose lists were stale and in which a
\* block reaches one successor by both edges of its If.
C15_Witness ==
    /\ stage = "ssa"
    /\ ssa # None
    /\ hir.blocks[0].preds = <<0, 0>>
    /\ \E b \in DOMAIN ssa.blocks : \E s \in DOMAIN ssa.blocks :
          Occurrences(successors(ssa.blocks[b]), s) = 2

\* The instructions of a block that are not Phi instructions, in order.
non_phi_instructions(block) ==
    SelectSeq(block.instructions, LAMBDA instr : instr.value.kind # "Phi")

\* C16: after enter_ssa no instruction of any block of the block map is a
\* StoreLocal: every StoreLocal(target, value) of the input has become an
\* instruction whose lvalue is target (at some version) and whose value is
\* LoadLocal of the renamed value.
C16_NoStoreLocal ==
    (stage \notin {"program", "hir", "failed"} /\ ssa # None) =>
        \A b \in DOMAIN ssa.blocks :
            /\ \A i \in 1..Len(ssa.blocks[b].instructions) :
                   ssa.blocks[b].instructions[i].value.kind # "StoreLocal"
            /\ Len(non_phi_instructions(ssa.blocks[b])) = Len(hir.blocks[b].instructions)
            /\ \A i \in 1..Len(hir.blocks[b].instructions) :
                   hir.blocks[b].instructions[i].value.kind = "StoreLocal" =>
                       /\ non_phi_instructions(ssa.blocks[b])[i].value.kind = "LoadLocal"
                       /\ non_phi_instructions(ssa.blocks[b])[i].lvalue.name
                              = hir.blocks[b].instructions[i].value.args[1].name
                       /\ non_phi_instructions(ssa.blocks[b])[i].value.args[1].name
                              = hir.blocks[b].instructions[i].value.args[2].name

\* The `const $ = _c(n);` lines of the emitted function.
cache_lines(emitted) ==
    SelectSeq(emitted.prologue, LAMBDA line : line.kind = "cache")

\* C17: the emitted function holds exactly one _c(n) call when the scope
\* list is not empty and none when it is empty; n is the sum over the scopes
\* of the number of dependencies plus the number of declarations, or 1 when
\* that sum is 0.
C17_CacheSize ==
    (stage \in {"code", "verified"}) =>
        LET n == slot_sum(scopes.scopes)
        IN  IF scopes.scopes = <<>>
            THEN cache_lines(code) = <<>>
            ELSE /\ Len(cache_lines(code)) = 1
                 /\ cache_lines(code)[1].size = (IF n = 0 THEN 1 ELSE n)

\* Text was emitted for a function with two scopes whose dependencies and
\* declarations both count.
C17_Witness ==
    /\ stage = "code"
    /\ Len(scopes.scopes) >= 2
    /\ dependency_sum(scopes.scopes) >= 1
    /\ slot_sum(scopes.scopes) > dependency_sum(scopes.scopes)
    /\ Len(cache_lines(code)) = 1

\* The context in which statement i of the function body is lowered.
context_before(func, i) == lower_statements(LoweringContext_new, SubSeq(func.body, 1, i - 1))

\* Lowering of a branch that started in block `first` ended in a block that
\* control reaches from `first` and that no return, break or continue closed.
falls_through(body, first) ==
    /\ ~is_block_terminated(body, body.current_block_id)
    /\ body.current_block_id \in ReachableAvoiding([blocks |-> body.blocks], {first}, -1)

\* The branch whose lowering ended in context `body` is linked to the merge block.
branch_linked(body, first, merge) ==
    falls_through(body, first) =>
        hir.blocks[body.current_block_id].terminal = Goto(merge)

\* C18: for each If statement of the function body, the last block lowered
\* for the then-branch, and the last block lowered for the else-branch, is
\* terminated with Goto(merge) unless it ends in return, break or continue,
\* also when the branch holds nested control flow.
C18_BranchesReachMerge ==
    (stage = "hir") =>
        \A i \in 1..Len(program.body) :
            program.body[i].k = "IfStatement" =>
                Bind([entry \in {lower_if_entry(context_before(program, i), program.body[i])} |->
                Bind([then_body \in {lower_if_consequent(entry, program.body[i])} |->
                Bind([then_done \in {lower_if_branch(then_body, entry.then_block_id,
                                                     entry.merge_block_id)} |->
                Bind([else_body \in {lower_if_alternate(then_done, entry, program.body[i])} |->
                    /\ branch_linked(then_body, entry.then_block_id, entry.merge_block_id)
                    /\ branch_linked(else_body, entry.else_block_id, entry.merge_block_id)
                ])])])])

RECURSIVE StatementListsOf(_)
\* Every statement list of a tree: the list itself and the bodies, the
\* alternates and the case bodies nested in it.
StatementListsOf(stmts) ==
    {stmts} \cup UNION { StatementListsOf(stmts[i].body)
                            \cup StatementListsOf(stmts[i].alternate)
                            \cup UNION { StatementListsOf(stmts[i].cases[c].body) :
                                            c \in 1..Len(stmts[i].cases) } :
                         i \in 1..Len(stmts) }

\* The Phi instructions of a block.
phis_of(func, b) ==
    { func.blocks[b].instructions[i] : i \in { j \in 1..Len(func.blocks[b].instructions) :
                                                func.blocks[b].instructions[j].value.kind = "Phi" } }

\* stmt assigns a Phi destination of block b.
is_phi_copy(func, b, stmt) ==
    /\ stmt.kind = "Instruction"
    /\ stmt.value.kind = "LoadLocal"
    /\ \E phi \in phis_of(func, b) : phi.lvalue = stmt.lvalue

\* stmt is the copy made for an edge p -> header that comes from inside the
\* loop of `header`: p is a block the header dominates.
is_back_edge_copy(func, header, stmt) ==
    /\ is_phi_copy(func, header, stmt)
    /\ \E phi \in phis_of(func, header) : \E k \in 1..Len(phi.value.args) :
          /\ phi.lvalue = stmt.lvalue
          /\ phi.value.args[k] = stmt.value.args[1]
          /\ phi.value.blocks[k] \in Reachable(func)
          /\ Dominates(func, header, phi.value.blocks[k])

\* C19: a Goto to the header of any loop on the loop-context stack, not only
\* of the innermost entry, produces the Phi-copies of that edge followed by
\* Continue: in every statement list of the tree, the copies made for an edge
\* from inside a loop to its header are followed, within the list, by Continue
\* with nothing but copies of that header in between.
C19_ContinueAnyLoop ==
    (stage = "tree") =>
        \A header \in ssa.loop_headers : \A list \in StatementListsOf(tree.body) :
            \A i \in 1..Len(list) :
                is_back_edge_copy(ssa, header, list[i]) =>
                    \E j \in (i + 1)..Len(list) :
                        /\ list[j].kind = "Continue"
                        /\ \A k \in (i + 1)..(j - 1) : is_phi_copy(ssa, header, list[k])

\* C20: Phi-edge copies carry the value of the edge actually taken.  On a
\* path that leaves a loop by a break from its body, the copy made for the
\* break edge is the last assignment to the Phi destination of the loop's
\* exit block: no copy to the same destination for another edge stands
\* between the While statement and the first statement of that block that is
\* not a copy.
C20_PhiCopyOfEdgeTaken ==
    (stage = "tree") =>
        \A list \in StatementListsOf(tree.body) : \A j \in 1..Len(list) :
            list[j].kind = "While" =>
                \A b \in DOMAIN ssa.blocks : \A k \in (j + 1)..Len(list) :
                    (\A m \in (j + 1)..k : is_phi_copy(ssa, b, list[m])) =>
                        \A inner \in Range(StatementsOf(list[j].body)) :
                            (is_phi_copy(ssa, b, inner) /\ inner.lvalue = list[k].lvalue)
                                => inner.value = list[k].value

\* The dominance frontier of block x by its definition: the blocks b such
\* that x dominates a reachable predecessor of b and does not strictly
\* dominate b.
DominanceFrontier(func, x) ==
    { b \in DOMAIN func.blocks :
        /\ \E p \in Range(func.blocks[b].preds) :
              p \in Reachable(func) /\ Dominates(func, x, p)
        /\ ~(x # b /\ Dominates(func, x, b)) }

\* C22 (dominance frontiers are exact): after DominatorTree::compute on a
\* CFG whose predecessor lists match its successor edges, the frontier
\* recorded for every reachable block x is the set of blocks b such that x
\* dominates some reachable predecessor of b and x does not strictly
\* dominate b.
C22_DominanceFrontiersExact ==
    stage = "frontiers" =>
        \A x \in Reachable(DominatedFunction) :
            dom.dominance_frontiers[x] = DominanceFrontier(DominatedFunction, x)

\* Some reachable block jumps to the entry block.
EntryHasPredecessor(func) ==
    \E p \in Range(func.blocks[func.entry_block].preds) : p \in Reachable(func)

\* C22 as the code provides it: the frontiers are exact on every CFG whose
\* entry block has no reachable predecessor.
C22_FrontiersExactWithoutEntryEdge ==
    (stage = "frontiers" /\ ~EntryHasPredecessor(DominatedFunction)) =>
        \A x \in Reachable(DominatedFunction) :
            dom.dominance_frontiers[x] = DominanceFrontier(DominatedFunction, x)

\* A loop 1 -> 2 -> 1 entered from the entry block: the runner started at
\* block 2 climbs to block 1 before it stops at the entry block.
C22_Witness ==
    /\ stage = "frontiers"
    /\ ~EntryHasPredecessor(DominatedFunction)
    /\ dom.idoms = (0 :> 0 @@ 1 :> 0 @@ 2 :> 1)
    /\ dom.dominance_frontiers[2] = {1}
    /\ dom.dominance_frontiers[1] = {1}

\* The blocks of a function that hold a StoreLocal to `name`.
StoringBlocks(func, name) ==
    { b \in DOMAIN func.blocks :
        \E i \in 1..Len(func.blocks[b].instructions) :
            /\ func.blocks[b].instructions[i].value.kind = "StoreLocal"
            /\ func.blocks[b].instructions[i].value.args[1].name = name }

\* The names that are the target of some StoreLocal.
PromotableNames(func) ==
    { func.blocks[b].instructions[i].value.args[1].name :
        <<b, i>> \in { site \in InstructionSites(func) :
                          InstructionAt(func, site).value.kind = "StoreLocal" } }

RECURSIVE IteratedFrontier(_, _, _)
\* The iterated dominance frontier of the blocks `defs`: the least set that
\* holds the frontier of every block of defs and of every block of itself.
IteratedFrontier(func, defs, found) ==
    LET more == UNION { DominanceFrontier(func, x) : x \in defs \cup found }
    IN  IF more \subseteq found THEN found
        ELSE IteratedFrontier(func, defs, found \cup more)

\* The indices of the Phi instructions for `name` in a block.
PhiIndices(block, name) ==
    { i \in 1..Len(block.instructions) :
        block.instructions[i].value.kind = "Phi" /\ block.instructions[i].lvalue.name = name }

\* The Phi instructions of a block stand before every other instruction.
PhisLead(block) ==
    \A i, j \in 1..Len(block.instructions) :
        (block.instructions[j].value.kind = "Phi" /\ i < j)
            => block.instructions[i].value.kind = "Phi"

\* C21 (Phi placement is the iterated dominance frontier): for each name v
\* that is the target of some StoreLocal and each block d, enter_ssa inserts
\* a Phi for v at the top of d if and only if d is in the iterated dominance
\* frontier of the blocks that hold a StoreLocal to v, and never more than
\* one Phi for the same v and d.
C21_PhiPlacement ==
    (stage = "ssa" /\ hir # None /\ ssa # None) =>
        /\ \A d \in DOMAIN ssa.blocks : PhisLead(ssa.blocks[d])
        /\ \A v \in PromotableNames(hir) : \A d \in DOMAIN ssa.blocks :
              /\ Cardinality(PhiIndices(ssa.blocks[d], v)) <= 1
              /\ (PhiIndices(ssa.blocks[d], v) # {})
                    <=> (d \in IteratedFrontier(ssa, StoringBlocks(hir, v), {}))
        /\ \A d \in DOMAIN ssa.blocks : \A i \in 1..Len(ssa.blocks[d].instructions) :
              ssa.blocks[d].instructions[i].value.kind = "Phi"
                  => ssa.blocks[d].instructions[i].lvalue.name \in PromotableNames(hir)

\* Two blocks in a loop store to r: the join behind them holds one Phi for
\* r because of the stores, the loop header one because of that Phi.
C21_Witness ==
    /\ stage = "ssa"
    /\ program = None
    /\ \E d \in DOMAIN ssa.blocks :
          /\ PhiIndices(ssa.blocks[d], <<"r">>) # {}
          /\ PhiIndices(ssa.blocks[d], <<"s">>) # {}
          /\ d \notin StoringBlocks(hir, <<"r">>)
    /\ \E d \in DOMAIN ssa.blocks :
          /\ PhiIndices(ssa.blocks[d], <<"r">>) # {}
          /\ PhiIndices(ssa.blocks[d], <<"s">>) = {}

\* The alias links of the schedule: destination and source of every LoadLocal,
\* destination and operand of every Phi.
AliasLinks(func) ==
    UNION { { <<linearize_instructions(func)[i].lvalue, src>> :
                src \in Range(linearize_instructions(func)[i].value.args) } :
            i \in { j \in 1..Len(linearize_instructions(func)) :
                      linearize_instructions(func)[j].value.kind \in {"LoadLocal", "Phi"} } }

RECURSIVE AliasClosure(_, _)
\* The identifiers linked to a member of class by a chain of alias links.
AliasClosure(links, class) ==
    LET next == class \cup { l[1] : l \in { k \in links : k[2] \in class } }
                      \cup { l[2] : l \in { k \in links : k[1] \in class } }
    IN  IF next = class THEN class ELSE AliasClosure(links, next)

AliasClass(func, id) == AliasClosure(AliasLinks(func), {id})

\* The identifiers with a defining instruction in the schedule.
DefinedIdentifiers(func) ==
    { linearize_instructions(func)[i].lvalue : i \in 1..Len(linearize_instructions(func)) }

ClassDefiningIndices(func, id) ==
    UNION { DefiningIndices(func, m) : m \in AliasClass(func, id) }

ClassUsingIndices(func, id) ==
    UNION { UsingIndices(func, m) : m \in AliasClass(func, id) }

\* C23 (liveness ranges are the union over alias classes): after
\* infer_liveness every Identifier with a defining instruction in the schedule
\* has a range [s, e) with s < e, where s is the least defining index over its
\* alias class and e is 1 + the greatest defining or using index over the
\* class; two identifiers of the same class report the same range.
C23_RangesCoverAliasClass ==
    liveness # None =>
        \A id \in DefinedIdentifiers(ssa) :
            /\ id \in DOMAIN liveness.ranges
            /\ liveness.ranges[id][1] < liveness.ranges[id][2]
            /\ \A idx \in ClassDefiningIndices(ssa, id) : liveness.ranges[id][1] <= idx
            /\ liveness.ranges[id][1] \in ClassDefiningIndices(ssa, id)
            /\ \A idx \in ClassDefiningIndices(ssa, id) \cup ClassUsingIndices(ssa, id) :
                  idx + 1 <= liveness.ranges[id][2]
            /\ liveness.ranges[id][2] - 1
                  \in ClassDefiningIndices(ssa, id) \cup ClassUsingIndices(ssa, id)
            /\ \A other \in AliasClass(ssa, id) \cap DefinedIdentifiers(ssa) :
                  other \in DOMAIN liveness.ranges
                      /\ liveness.ranges[other] = liveness.ranges[id]

RECURSIVE case_body_context(_, _, _)
\* The context in which the fall-through test of case i is made: the cases
\* before it lowered and linked, then the body of case i lowered.
case_body_context(entry, cases, i) ==
    lower_case_body(IF i = 1 THEN entry.ctx
                    ELSE lower_loop_back(case_body_context(entry, cases, i - 1),
                                         next_target(cases, entry.first_block, i - 1,
                                                     entry.exit_block)),
                    cases, entry.first_block, i)

\* The block of the default case of the list, else `exit`.
DefaultCaseBlock(cases, first_block, exit) ==
    IF \E i \in 1..Len(cases) : cases[i].a = <<>>
    THEN first_block + (CHOOSE i \in 1..Len(cases) : cases[i].a = <<>>) - 1
    ELSE exit

\* The switch statements of the function body, as indices into it.
SwitchStatements == { i \in 1..Len(program.body) : program.body[i].k = "SwitchStatement" }

\* C24 (switch lowering links fall-through): for each switch statement of the
\* function body, the Switch terminal's default target is the block of the
\* `default` case if there is one and the exit block otherwise, its
\* merge-target is the exit block, and the last block lowered for each case
\* body, when no return or break closed it, is terminated with Goto(block of
\* the next case in source order), or Goto(exit) for the last case.
C24_SwitchFallThrough ==
    (stage = "hir") =>
        \A i \in SwitchStatements :
            Bind([entry \in {lower_switch_entry(context_before(program, i), program.body[i])} |->
                /\ hir.blocks[entry.switch_block].terminal.kind = "Switch"
                /\ hir.blocks[entry.switch_block].terminal.default =
                       Some(DefaultCaseBlock(program.body[i].b, entry.first_block,
                                             entry.exit_block))
                /\ hir.blocks[entry.switch_block].terminal.merge_target = Some(entry.exit_block)
                /\ \A k \in 1..Len(program.body[i].b) :
                      Bind([body \in {case_body_context(entry, program.body[i].b, k)} |->
                          falls_through(body, entry.first_block + (k - 1)) =>
                              hir.blocks[body.current_block_id].terminal =
                                  Goto(IF k < Len(program.body[i].b)
                                       THEN entry.first_block + k
                                       ELSE entry.exit_block)])])

\* A switch whose second case of three is the default and holds a nested if:
\* the body ends in the merge block of the if, which jumps to the third case.
C24_Witness ==
    /\ stage = "hir"
    /\ \E i \in SwitchStatements :
          /\ Len(program.body[i].b) = 3
          /\ program.body[i].b[2].a = <<>>
          /\ Bind([entry \in {lower_switch_entry(context_before(program, i), program.body[i])} |->
             Bind([body \in {case_body_context(entry, program.body[i].b, 2)} |->
                /\ hir.blocks[entry.switch_block].terminal.default = Some(entry.first_block + 1)
                /\ falls_through(body, entry.first_block + 1)
                /\ body.current_block_id # entry.first_block + 1
                /\ hir.blocks[body.current_block_id].terminal = Goto(entry.first_block + 2)])])

\* The identifiers an instruction at a schedule index of the range reads.
ReadInRange(func, range) ==
    UNION { Range(get_operand_identifiers(linearize_instructions(func)[idx + 1].value)) :
              idx \in { j \in range[1]..(range[2] - 1) : j < Len(linearize_instructions(func)) } }

\* C25 (scope dependencies cover every external input): every identifier read
\* by an instruction inside a scope's range that has no defining instruction
\* inside the range, parameters and free variables (version 0, no defining
\* instruction at all) included, is listed in the scope's dependencies.
C25_DependenciesCoverInputs ==
    scopes # None =>
        \A i \in 1..Len(scopes.scopes) :
            \A used \in ReadInRange(ssa, scopes.scopes[i].range) :
                (\A idx \in DefiningIndices(ssa, used) : ~InRange(idx, scopes.scopes[i].range))
                    => used \in Range(scopes.scopes[i].dependencies)

\* The names of the hoisted `let` line of the emitted text.
hoisted_names(emitted) ==
    UNION { Range(emitted.prologue[i].names) :
              i \in { j \in 1..Len(emitted.prologue) : emitted.prologue[j].kind = "let" } }

\* C27 (the temporary classification is the same in every pass): for every
\* identifier the tree defines, the one-letter name t included, the test of
\* infer_scopes and generate_instruction and the test of collect_declarations
\* and get_canonical_name agree, and no identifier is both in the hoisted
\* `let` list and emitted as a `const` binding at its definition.
C27_TemporaryClassification ==
    code # None =>
        \A s \in { d \in Range(StatementsOf(tree.body)) : d.kind = "Instruction" } :
            /\ is_temp_name(s.lvalue.name) = is_temp_canonical(s.lvalue.name)
            /\ ~(/\ generate_instruction(CodeGenerator(tree), s) = "const"
                 /\ identifier_name(CodeGenerator(tree), s.lvalue) \in hoisted_names(code))

\* The Scope statements of the emitted text that get a guarded region.
GuardedRegions ==
    { s \in Range(StatementsOf(code.body)) :
        s.kind = "Scope" /\ ~(s.dependencies = <<>> /\ s.body = <<>>) }

\* The cache indices the guarded region of a Scope statement reads or writes.
CacheIndices(s) ==
    { access.index :
        access \in Range(generate_scope(CodeGenerator(tree), s.dependencies,
                                        s.declarations, s.body)) }

\* C26 (cache slots of different scopes do not collide): when the emitted text
\* holds guarded regions for two or more Scope statements, the sets of cache
\* indices read or written by distinct scopes are pairwise disjoint, and
\* every index is smaller than the n of `_c(n)`.
C26_CacheSlotsDisjoint ==
    (code # None /\ Cardinality(GuardedRegions) >= 2) =>
        /\ \A s1, s2 \in GuardedRegions :
              s1.id # s2.id => CacheIndices(s1) \cap CacheIndices(s2) = {}
        /\ \A s \in GuardedRegions :
              \A i \in CacheIndices(s) :
                  \E l \in Range(cache_lines(code)) : i < l.size

\* The positions of the instructions of the block that define a version of the name.
VersionIndices(block, name) ==
    { i \in 1..Len(block.instructions) : block.instructions[i].lvalue.name = name }

RECURSIVE VersionAtEnd(_, _, _)
\* The version of the name on top of its stack when rename_block is done with
\* the instructions of block p: the last version defined in p, else the one
\* at the end of the immediate dominator of p, else (at the entry) 0.
VersionAtEnd(func, p, name) ==
    IF VersionIndices(func.blocks[p], name) # {}
    THEN func.blocks[p].instructions[
             CHOOSE i \in VersionIndices(func.blocks[p], name) :
                 \A j \in VersionIndices(func.blocks[p], name) : j <= i].lvalue.id
    ELSE IF p = func.entry_block THEN 0
    ELSE VersionAtEnd(func, CHOOSE d \in Reachable(func) : IsImmediateDominator(func, d, p),
                      name)

\* The Phi instructions of the reachable blocks, as <<block, position>>.
ReachablePhis(func) ==
    { site \in InstructionSites(func) :
        site[1] \in Reachable(func) /\ InstructionAt(func, site).value.kind = "Phi" }

\* C28 (Phi operands match incoming edges): after enter_ssa each Phi of a
\* reachable block has exactly one operand per incoming edge from a reachable
\* predecessor, labelled with the id of that predecessor and carrying the
\* version on top of the name's stack at the end of that predecessor (0 if
\* none), and no operand for an unreachable predecessor.
C28_PhiOperandsMatchEdges ==
    (stage = "ssa") =>
        \A site \in ReachablePhis(ssa) :
            LET phi == InstructionAt(ssa, site)
            IN  /\ Len(phi.value.args) = Len(phi.value.blocks)
                /\ \A p \in DOMAIN ssa.blocks :
                      Occurrences(phi.value.blocks, p) =
                          IF p \in Reachable(ssa)
                          THEN Occurrences(successors(ssa.blocks[p]), site[1])
                          ELSE 0
                /\ \A k \in 1..Len(phi.value.args) :
                      /\ phi.value.blocks[k] \in Reachable(ssa)
                      /\ phi.value.args[k] =
                             Identifier(phi.lvalue.name,
                                        VersionAtEnd(ssa, phi.value.blocks[k], phi.lvalue.name))

\* A Phi of a reachable block that merges two versions, one of them defined by
\* a store, in a block that also has a predecessor no path from the entry reaches.
C28_Witness ==
    /\ stage = "ssa"
    /\ program = None
    /\ \E site \in ReachablePhis(ssa) :
          /\ Len(InstructionAt(ssa, site).value.args) = 2
          /\ InstructionAt(ssa, site).value.blocks[1] # InstructionAt(ssa, site).value.blocks[2]
          /\ InstructionAt(ssa, site).value.args[1] # InstructionAt(ssa, site).value.args[2]
          /\ \E p \in DOMAIN ssa.blocks \ Reachable(ssa) :
                site[1] \in Range(successors(ssa.blocks[p]))

\* The edges of the CFG, as <<predecessor, successor>>.
CfgEdges(func) ==
    { <<p, b>> \in (DOMAIN func.blocks) \X (DOMAIN func.blocks) :
        b \in Range(successors(func.blocks[p])) }

\* The copies that stand for the Phis of b on the edge from p to b.
EdgeCopies(func, edge) == emit_phi_assignments(func, edge[2], edge[1])

\* The positions of the Phis of a block.
PhiPositions(block) ==
    { i \in 1..Len(block.instructions) : block.instructions[i].value.kind = "Phi" }

\* C29 (edge copies need no parallel-copy sequencing): in the output of
\* enter_ssa every operand of a Phi has the name of the Phi's destination and
\* no block holds two Phis for the same name, so among the copies emitted for
\* one CFG edge no copy reads a Phi destination that another copy of the edge
\* writes (and two copies that write the same destination read the same
\* source): running them one after the other in any order equals running
\* them at once.
C29_EdgeCopiesIndependent ==
    (stage = "ssa") =>
        /\ \A b \in DOMAIN ssa.blocks :
              /\ \A i \in PhiPositions(ssa.blocks[b]) :
                    \A operand \in Range(ssa.blocks[b].instructions[i].value.args) :
                        operand.name = ssa.blocks[b].instructions[i].lvalue.name
              /\ \A i, j \in PhiPositions(ssa.blocks[b]) :
                    i # j => ssa.blocks[b].instructions[i].lvalue.name
                                 # ssa.blocks[b].instructions[j].lvalue.name
        /\ \A edge \in CfgEdges(ssa) :
              \A i, j \in 1..Len(EdgeCopies(ssa, edge)) :
                  i # j =>
                      IF EdgeCopies(ssa, edge)[i].lvalue = EdgeCopies(ssa, edge)[j].lvalue
                      THEN EdgeCopies(ssa, edge)[i].value = EdgeCopies(ssa, edge)[j].value
                      ELSE EdgeCopies(ssa, edge)[i].value.args[1]
                               # EdgeCopies(ssa, edge)[j].lvalue

\* An edge with a copy for r and a copy for s that carry different versions.
C29_Witness ==
    /\ stage = "ssa"
    /\ program = None
    /\ \E edge \in CfgEdges(ssa) :
          /\ Len(EdgeCopies(ssa, edge)) = 2
          /\ EdgeCopies(ssa, edge)[1].lvalue.name # EdgeCopies(ssa, edge)[2].lvalue.name
          /\ EdgeCopies(ssa, edge)[1].value.args[1].id >= 1
          /\ EdgeCopies(ssa, edge)[2].value.args[1].id >= 1
          /\ EdgeCopies(ssa, edge)[1].value.args[1].id # EdgeCopies(ssa, edge)[2].value.args[1].id

\* The calls of build_block that are past the visited test and have not returned.
ActiveFrames == { i \in 1..Len(builder.frames) : builder.frames[i].pc \notin {"call", "return"} }

\* C30, safety half (tree reconstruction never re-enters a block on its
\* recursion path): while build runs, visited_blocks holds exactly the blocks
\* of the build_block calls in progress, no two of those calls are for the
\* same block, and when a call returns the loop-context stack has the depth
\* it had when the call was entered.
C30_VisitedIsRecursionPath ==
    (stage = "building") =>
        /\ builder.visited_blocks = { builder.frames[i].block_id : i \in ActiveFrames }
        /\ \A i, j \in ActiveFrames :
              i # j => builder.frames[i].block_id # builder.frames[j].block_id
        /\ \A i \in 1..Len(builder.frames) :
              builder.frames[i].pc = "return" =>
                  Len(builder.loop_stack) = builder.frames[i].depth

\* C30 (tree reconstruction terminates on every finite CFG): the recursion
\* path never holds a block twice and the loop-context stack is balanced, at
\* every step, and build_reactive_function returns, also for cycles whose
\* header is not in loop_headers and for irreducible loops.
C30_TreeReconstructionTerminates ==
    /\ []C30_VisitedIsRecursionPath
    /\ <>(stage = "tree")

\* The stepwise builder returns the tree build_reactive_function computes.
TreeAgrees == (stage = "tree") => tree = build_reactive_function(ssa, scopes)

\* A cycle through all three blocks with no loop header declared has been
\* built: the walk closed at the visited entry block.
C30_Witness ==
    /\ stage = "tree"
    /\ ssa.loop_headers = {}
    /\ ssa.blocks[0].terminal = Goto(1)
    /\ ssa.blocks[1].terminal.kind = "If"
    /\ ssa.blocks[1].terminal.targets = <<2, 0>>
    /\ ssa.blocks[2].terminal = Goto(1)
    /\ builder.visited_blocks = {}
    /\ builder.loop_stack = <<>>

\* The ranges handed to merge_scopes.
InputRanges == { merge_input[i].range : i \in 1..Len(merge_input) }

\* The input ranges that lie inside the range r.
RangesWithin(r) == { q \in InputRanges : r[1] <= q[1] /\ q[2] <= r[2] }

\* C5 (scope disjointness): for every list of scopes with non-empty
\* half-open ranges, merge_scopes returns scopes sorted by range start whose
\* ranges are pairwise disjoint (the end of one is at most the start of the
\* next, so abutting ranges stay separate); every input range lies inside an
\* output range; and every output range is the union of a chain of
\* overlapping input ranges: it starts at the least start and ends at the
\* greatest end of the inputs inside it, and each point strictly inside it is
\* strictly inside one of them (so no two neighbours of the chain merely abut).
C5_MergeDisjoint ==
    stage = "merged" =>
        /\ \A i, j \in 1..Len(merge_output) :
              i < j => /\ merge_output[i].range[1] <= merge_output[j].range[1]
                       /\ merge_output[i].range[2] <= merge_output[j].range[1]
        /\ \A q \in InputRanges :
              \E i \in 1..Len(merge_output) : q \in RangesWithin(merge_output[i].range)
        /\ \A i \in 1..Len(merge_output) :
              /\ merge_output[i].range[1] < merge_output[i].range[2]
              /\ \E q \in RangesWithin(merge_output[i].range) :
                    q[1] = merge_output[i].range[1]
              /\ \E q \in RangesWithin(merge_output[i].range) :
                    q[2] = merge_output[i].range[2]
              /\ \A c \in (merge_output[i].range[1] + 1)..(merge_output[i].range[2] - 1) :
                    \E q \in RangesWithin(merge_output[i].range) : q[1] < c /\ c < q[2]

\* [1,3), [3,4), [0,2) are merged to [0,3), [3,4): the overlapping pair is
\* joined, the abutting range stays separate, the output is sorted.
C5_Witness ==
    /\ stage = "merged"
    /\ Len(merge_input) = 3
    /\ merge_input[1].range = <<1, 3>>
    /\ merge_input[2].range = <<3, 4>>
    /\ merge_input[3].range = <<0, 2>>
    /\ Len(merge_output) = 2
    /\ merge_output[1].range = <<0, 3>>
    /\ merge_output[2].range = <<3, 4>>

====
